---- MODULE Spec2Model ----
(***************************************************************************)
(* Procedural spaceship generator: the ship assembler (generateShip), the  *)
(* seeded random number generator, the thruster layout algorithms and the  *)
(* four section generators, as a state machine.                            *)
(*                                                                         *)
(* Real numbers are fixed-point integers in thousandths ("milli"): a mass  *)
(* of 10 is 10000, a length of 0.3 is 300.  random() returns q/RES for a   *)
(* raw outcome q in 0..RES-1.  Math.sin(seed) is a fixed but unknown       *)
(* function of the seed: the variable sinTable records, per seed value,    *)
(* the outcome it produced the first time that value was drawn, and every  *)
(* later draw at the same seed value returns the recorded outcome.         *)
(***************************************************************************)
EXTENDS Integers, Sequences, FiniteSets, TLC

\* ------------------------------------------------------------------ bounds
RES == 8
MaxGens == 2

\* ------------------------------------------------------- program constants
SHIP_MAX_MASS == 1000
SHIP_MIN_MASS == 10
MIN_THRUSTER_COUNT == 1
MAX_THRUSTER_COUNT == 33
MAX_THRUSTER_POWER == 250
MIN_THRUSTER_POWER == 5

\* -------------------------------------------------------------- arithmetic
Min(a, b) == IF a < b THEN a ELSE b
Max(a, b) == IF a > b THEN a ELSE b
Abs(a) == IF a < 0 THEN -a ELSE a

\* Math.round(n / d) for d > 0: the nearest integer, halves up
Round(n, d) == (2 * n + d) \div (2 * d)

\* a * b and a / b on thousandths
MulF(a, b) == (a * b) \div 1000
DivF(a, b) == (a * 1000) \div b

PI == 3142

RECURSIVE SqrtSearch(_, _, _)
SqrtSearch(n, lo, hi) ==
  IF lo >= hi THEN lo
  ELSE LET mid == (lo + hi + 1) \div 2
       IN IF mid * mid <= n THEN SqrtSearch(n, mid, hi)
          ELSE SqrtSearch(n, lo, mid - 1)

\* floor of the square root of an integer
Isqrt(n) == SqrtSearch(n, 0, 46340)

RECURSIVE CbrtSearch(_, _, _)
CbrtSearch(n, lo, hi) ==
  IF lo >= hi THEN lo
  ELSE LET mid == (lo + hi + 1) \div 2
       IN IF mid * mid * mid <= n THEN CbrtSearch(n, mid, hi)
          ELSE CbrtSearch(n, lo, mid - 1)

\* floor of the cube root of an integer
Icbrt(n) == CbrtSearch(n, 0, 1290)

\* Math.sqrt and Math.cbrt on thousandths (the cube root to hundredths)
Sqrt(x) == Isqrt(x * 1000)
Cbrt(x) == 10 * Icbrt(x * 1000)

\* Math.sin on an angle in ten-thousandths of a radian within [0, pi/2],
\* result in ten-thousandths: the Taylor polynomial to the ninth power
SinQ(x) ==
  LET x2 == (x * x) \div 10000
      u3 == (x * x2) \div 60000
      u5 == (u3 * x2) \div 200000
      u7 == (u5 * x2) \div 420000
      u9 == (u7 * x2) \div 720000
  IN x - u3 + u5 - u7 + u9

\* Math.sin(2 * pi * p / d) in ten-thousandths, for integers p and d > 0
SinT(p, d) ==
  LET t == ((p % d) * 62832) \div d
  IN IF t <= 15708 THEN SinQ(t)
     ELSE IF t <= 31416 THEN SinQ(31416 - t)
     ELSE IF t <= 47124 THEN -SinQ(t - 31416)
     ELSE -SinQ(62832 - t)

\* Math.cos(2 * pi * p / d) in ten-thousandths
CosT(p, d) == SinT(4 * p + d, 4 * d)

\* --------------------------------------------------------------- the state
VARIABLES
  pc,               \* where generateShip stands: "idle" between calls
  seed,             \* generateShip's seed argument (a sequence of char codes)
  rngSeed,          \* SeededRandom.seed of the call's rng
  draws,            \* the raw outcomes random() returned during this call
  sinTable,         \* seed value -> raw outcome of random() at that value
  gens,             \* number of generateShip calls made; a call's ship is its number
  scene,            \* the ship roots that are children of the scene
  currentShipRef,   \* currentShipRef.current: a ship root, 0 for null
  disposed,         \* ship root -> number of times its subtree was disposed
  roots,            \* ship root -> the root group built for it
  urlSeed,          \* the seed parameter of window.location
  debugForceShape,  \* CommandDeckFactory.DEBUG_FORCE_SHAPE, "null" for null
  factory,          \* commandDeck.ts' singleton factory: FALSE for null
  ui,               \* main.ts' seedInput.value, seedHistory, seedIndex, last listener
  gen,              \* generateShip's local variables
  cleanStart,       \* the call began with an empty scene and a null slot
  cleanRuns,        \* the results of the calls that began clean
  call              \* the last direct call of a thruster layout function

vars == <<pc, seed, rngSeed, draws, sinTable, gens, scene, currentShipRef,
          disposed, roots, urlSeed, debugForceShape, gen, cleanStart, cleanRuns,
          call, factory, ui>>

\* main.ts before its initialization: an empty input, no history, both
\* navigation buttons as document.createElement made them; event, threw and
\* dropped record the last listener run, whether its generateShip threw and
\* how many history entries it discarded
NoUi == [seedInput |-> <<>>, seedHistory |-> <<>>, seedIndex |-> -1, event |-> "none",
         prevDisabled |-> FALSE, nextDisabled |-> FALSE, threw |-> FALSE, dropped |-> 0]

\* the seeds a call is made with: "a" and "b"
Seeds == {<<97>>, <<98>>}

\* ------------------------------------------------------------ SeededRandom
\* the 16-bit halves hi, lo of a 32-bit pattern as a signed integer (ToInt32)
ToInt32(hi, lo) == IF hi >= 32768 THEN (hi - 65536) * 65536 + lo ELSE hi * 65536 + lo

\* a loop step that adds the hash to its shift: ((hash << 5) + hash) + char
HashStep33(hash, char) ==
  LET lo == hash % 65536
      hi == (hash \div 65536) % 65536
      sl == (lo * 32) % 65536
      sh == (hi * 32 + (lo * 32) \div 65536) % 65536
      dl == sl + lo + char
      dh == sh + hi + (dl \div 65536)
  IN ToInt32(dh % 65536, dl % 65536)

\* one step of hashCode's loop: ((hash << 5) - hash) + char, then hash & hash.
\* The shift wraps to 32 bits (sh, sl are its halves); the difference and the
\* sum are exact, and hash & hash keeps their low 32 bits as a signed integer
HashStep(hash, char) ==
  LET lo == hash % 65536
      hi == (hash \div 65536) % 65536
      sl == (lo * 32) % 65536
      sh == (hi * 32 + (lo * 32) \div 65536) % 65536
      dl == sl - lo + char
      dh == sh - hi + (dl \div 65536)
  IN ToInt32(dh % 65536, dl % 65536)

RECURSIVE HashLoop(_, _, _)
HashLoop(str, i, hash) ==
  IF i > Len(str) THEN hash ELSE HashLoop(str, i + 1, HashStep(hash, str[i]))

\* a hash that carries the number of calls made so far
hashCodeOfCall(str) == Abs(HashLoop(str, 1, 0)) + gens

hashCode(str) == Abs(HashLoop(str, 1, 0))

\* new SeededRandom(seed): the generator's first seed value
SeededRandom(str) == hashCode(str)

\* the outcomes random() can return at seed value k: the recorded one if that
\* value was drawn before, else any of the set S the call site is explored with
Pick(k, S) == IF k \in DOMAIN sinTable THEN {sinTable[k]} ELSE S

All == 0 .. RES - 1
Ends == {0, RES - 1}
Mid3 == {0, RES \div 2, RES - 1}
Low == {0}

\* random(), range(min, max) and int(min, max) for the raw outcome q
random(q) == (q * 1000) \div RES
range(q, min, max) == min + (q * (max - min)) \div RES
int(q, min, max) == min + (q * (max + 1 - min)) \div RES

\* Math.floor of thousandths, as an integer
Floor(x) == x \div 1000

\* a random() that leaves the seed where it was
randomStuck(sd, q) == [seed |-> sd, value |-> random(q), d |-> <<q>>]

\* SeededRandom.random() as a method: Math.sin(this.seed++) gives the outcome
\* q, and the seed goes up by one
randomCall(sd, q) == [seed |-> sd + 1, value |-> random(q), d |-> <<q>>]

\* SeededRandom.range(min, max): min + this.random() * (max - min)
rangeCall(sd, q, min, max) ==
  LET r == randomCall(sd, q)
  IN [r EXCEPT !.value = min + MulF(r.value, max - min)]

\* SeededRandom.int(min, max): Math.floor(this.range(min, max + 1))
intCall(sd, q, min, max) ==
  LET r == rangeCall(sd, q, min, max + 1000)
  IN [r EXCEPT !.value = Floor(r.value) * 1000]

\* Math.log on thousandths in (0, 1]: halving steps down to [0.5, 1], then
\* the series of 2 * atanh((x - 1) / (x + 1))
RECURSIVE Ln(_)
Ln(x) ==
  IF x < 500 THEN Ln(2 * x) - 693
  ELSE LET y == DivF(x - 1000, x + 1000)
           y3 == MulF(MulF(y, y), y)
           y5 == MulF(MulF(y3, y), y)
       IN 2 * (y + y3 \div 3 + y5 \div 5)

\* SeededRandom.weightedRandom(target, standardDeviation): two draws u1, u2,
\* z = sqrt(-2 ln u1) * cos(2 pi u2), and target + z * standardDeviation
\* clamped to [0, 1]; ln 0 is -Infinity, so for u1 = 0 the sign of the cosine
\* decides between the two ends
weightedRandomCall(sd, q1, q2, target, standardDeviation) ==
  LET r1 == randomCall(sd, q1)
      r2 == randomCall(r1.seed, q2)
      cos == CosT(q2, RES)
      z == (Sqrt(-2 * Ln(r1.value)) * cos) \div 10000
      result == IF r1.value = 0
                THEN (IF cos > 0 \/ (cos = 0 /\ 4 * q2 = RES) THEN 1000 ELSE 0)
                ELSE target + MulF(z, standardDeviation)
  IN [seed |-> r2.seed, value |-> Max(0, Min(1000, result)), d |-> r1.d \o r2.d]

\* draws made by a generator of its own, seeded afresh from the call's seed
DrawnAfresh(d) ==
  /\ rngSeed' = SeededRandom(seed) + Len(d)
  /\ draws' = draws \o d
  /\ sinTable' = [k \in DOMAIN sinTable \cup (rngSeed .. rngSeed + Len(d) - 1) |->
                    IF k \in DOMAIN sinTable THEN sinTable[k] ELSE d[k - rngSeed + 1]]

\* the draws d made from rngSeed on: each advances the seed by one
Drawn(d) ==
  /\ rngSeed' = rngSeed + Len(d)
  /\ draws' = draws \o d
  /\ sinTable' = [k \in DOMAIN sinTable \cup (rngSeed .. rngSeed + Len(d) - 1) |->
                    IF k \in DOMAIN sinTable THEN sinTable[k] ELSE d[k - rngSeed + 1]]

\* ---------------------------------------------------------------- geometry
\* the extent along Z of a piece of geometry
Half(h) == h \div 2
Extent(part, lo, hi) == [part |-> part, zMin |-> lo, zMax |-> hi]
\* a box of depth h, or a cylinder or cone of height h turned onto the Z axis
\* (rotateX(pi / 2)): centred on the origin
Centred(part, h) == Extent(part, -Half(h), h - Half(h))
\* geometry.translate(0, 0, dz), or a mesh at position.z = dz
Translate(e, dz) == [e EXCEPT !.zMin = @ + dz, !.zMax = @ + dz]
\* the least zMin of a non-empty set of extents
MinZ(es) == CHOOSE m \in {e.zMin : e \in es} : \A e \in es : m <= e.zMin

\* the outcomes of a call site, one raw outcome for each distinct result
Reps(F(_)) == {q \in All : \A p \in All : p < q => F(p) # F(q)}
\* the least and the greatest outcome of a call site, if their results differ
EndsOf(F(_)) == {0} \cup {q \in {RES - 1} : F(q) # F(0)}

\* the outcomes a layout function's draw is explored with: every distinct
\* result when the function is called directly, the two extremes inside
\* generateShip
Sites(F(_)) == IF pc = "layout" THEN Reps(F) ELSE EndsOf(F)

\* geometry of depth h left centred on the origin
RearCentred(part, h) == Centred(part, h)

\* geometry of depth h whose rear face is moved to z = 0:
\* geometry.translate(0, 0, h / 2)
RearAtZero(part, h) == Translate(Centred(part, h), Half(h))

\* ------------------------------------------------------------ cargo section
prefabCargoPodVolume == <<1, 2, 3, 5, 8, 13, 21, 34, 55, 89, 144>>

RECURSIVE ClosestLoop(_, _, _)
ClosestLoop(targetMass, i, podMass) ==
  IF i > Len(prefabCargoPodVolume) THEN podMass
  ELSE ClosestLoop(targetMass, i + 1,
         IF Abs(prefabCargoPodVolume[i] * 1000 - targetMass) < Abs(podMass - targetMass)
         THEN prefabCargoPodVolume[i] * 1000 ELSE podMass)

\* a pod mass taken from the prefabricated volumes whatever the target
getClosestPrefab(targetMass) ==
  ClosestLoop(targetMass, 2, prefabCargoPodVolume[1] * 1000)

getClosestPodMass(targetMass) ==
  IF targetMass > 200000 THEN targetMass
  ELSE ClosestLoop(targetMass, 2, prefabCargoPodVolume[1] * 1000)

\* shipSizeScalar = Math.min(1, cargoMass / 1000), in millionths
ShipSizeScalar(cargoMass) == Min(1000000, cargoMass)

howManySegmentsOfCargo(cargoMass, q) ==
  LET shipSizeScalar == ShipSizeScalar(cargoMass)
  IN IF shipSizeScalar <= 200000 THEN Floor(range(q, 1000, 3000))
     ELSE IF shipSizeScalar <= 400000 THEN Floor(range(q, 2000, 5000))
     ELSE IF shipSizeScalar <= 600000 THEN Floor(range(q, 2000, 7000))
     ELSE IF shipSizeScalar <= 800000 THEN Floor(range(q, 2000, 11000))
     ELSE Floor(range(q, 2000, 13000))

howManyPodsPerSegment(cargoMass, q) ==
  LET shipSizeScalar == ShipSizeScalar(cargoMass)
  IN IF shipSizeScalar <= 300000 THEN Floor(range(q, 1000, 2000))
     ELSE IF shipSizeScalar <= 600000 THEN Floor(range(q, 1000, 4000))
     ELSE IF shipSizeScalar <= 800000 THEN Floor(range(q, 2000, 8000))
     ELSE Floor(range(q, 2000, 11000))

generateBoxDimensions(volume, bottomRatio, sideRatio) ==
  LET depth == Cbrt((((volume * sideRatio) \div bottomRatio) * 1000) \div bottomRatio)
      width == MulF(bottomRatio, depth)
      height == DivF(width, sideRatio)
  IN [width |-> width, depth |-> depth, height |-> height]

makeTaperedCylinderGeometry(volume, aspectRatio, taperRatio) ==
  LET k == taperRatio
      shapeFactor == 1000 + k + MulF(k, k)
      bigRadius == Cbrt(DivF(3 * volume, MulF(MulF(PI, aspectRatio), shapeFactor)))
  IN [smallRadius |-> MulF(bigRadius, taperRatio),
      bigRadius |-> bigRadius,
      depth |-> MulF(bigRadius, aspectRatio)]

\* back-aspect, top-aspect pairs: 1/2.5 = 0.4, 8/9 = 0.889
boxShapes == <<<<400, 889>>, <<889, 400>>, <<1000, 1000>>, <<1000, 500>>, <<500, 1000>>>>

BoxShapeIndex(q) == Floor(range(q, 0, Len(boxShapes) * 1000))

\* createPod: the pod's dimensions, the extents of its geometry in the pod's
\* own space, the pod mesh's position.z, and the draws made
BarrelPod(mass, q1, q2, q3) ==
  LET aspectRatio == range(q1, 1000, 2000)
      taperRatio == range(q2, 400, 800)
      g == makeTaperedCylinderGeometry(mass, aspectRatio, taperRatio)
      randomPortSize == MulF(range(q3, 100, 500), g.bigRadius)
  IN [dimensions |-> [width |-> g.bigRadius * 2, height |-> g.bigRadius * 2,
                      depth |-> g.depth * 2],
      parts |-> {Translate(Centred("pod", g.depth), (g.depth * 3) \div 2),
                 RearAtZero("pod", g.depth),
                 Translate(Extent("pod", -randomPortSize, randomPortSize), g.depth)},
      positionZ |-> g.depth,
      d |-> <<q1, q2, q3>>]

BoxPod(mass, q) ==
  LET aspectA == boxShapes[BoxShapeIndex(q) + 1][1]
      aspectB == boxShapes[BoxShapeIndex(q) + 1][2]
      g == generateBoxDimensions(mass, aspectA, aspectB)
  IN [dimensions |-> [width |-> g.width, height |-> g.height, depth |-> g.depth],
      parts |-> {RearAtZero("pod", g.depth)},
      positionZ |-> 0,
      d |-> <<q>>]

CylinderPod(mass, q) ==
  LET aspectCyl == range(q, 300, 900)
      podDepth == Cbrt(DivF(mass, MulF(PI, MulF(aspectCyl, aspectCyl))))
      podRadius == MulF(aspectCyl, podDepth)
  IN [dimensions |-> [width |-> podRadius * 2, height |-> podRadius * 2,
                      depth |-> podDepth],
      parts |-> {RearAtZero("pod", podDepth)},
      positionZ |-> 0,
      d |-> <<q>>]

SpherePod(mass) ==
  LET podRadius == Cbrt((3 * mass * 1000) \div (4 * PI))
  IN [dimensions |-> [width |-> podRadius * 2, height |-> podRadius * 2,
                      depth |-> 2 * podRadius],
      parts |-> {Translate(Extent("pod", -podRadius, podRadius), podRadius)},
      positionZ |-> 0,
      d |-> <<>>]

createPod(mass, shape, k) ==
  CASE shape = "barrel" ->
         {BarrelPod(mass, q1, q2, q3) :
            q1 \in Pick(k, Low), q2 \in Pick(k + 1, Low), q3 \in Pick(k + 2, Low)}
    [] shape = "box" ->
         {BoxPod(mass, q) : q \in Pick(k, Ends)}
    [] shape = "cylinder" ->
         {CylinderPod(mass, q) : q \in Pick(k, Low)}
    [] shape = "sphere" -> {SpherePod(mass)}

podShapes == <<"box", "box", "cylinder", "cylinder", "sphere", "barrel">>

getPodShape(q) == podShapes[Floor(random(q) * Len(podShapes)) + 1]

\* makeSegmentMesh: a single pod is put on the axis at position (0, 0, 0);
\* for more pods the arrangement is drawn and then the identifier THREE, which
\* the function does not bind (its parameter is spelt THRE), is evaluated
makeSegmentMesh(pod, podsPerSegment, k) ==
  IF podsPerSegment = 1
  THEN {[threw |-> FALSE,
         parts |-> {Translate(e, 0) : e \in pod.parts},
         width |-> pod.dimensions.width,
         height |-> pod.dimensions.height,
         depth |-> pod.dimensions.depth,
         layout |-> "single",
         d |-> <<>>]}
  ELSE {[threw |-> TRUE, d |-> <<q>>] : q \in Pick(k, Low)}

\* the position.z of the segment clones and the running totalLength
RECURSIVE CloneLoop(_, _, _, _, _, _)
CloneLoop(i, segmentCount, segmentLength, segmentGap, totalLength, cloneZ) ==
  IF i >= segmentCount THEN [totalLength |-> totalLength, cloneZ |-> cloneZ]
  ELSE CloneLoop(i + 1, segmentCount, segmentLength, segmentGap,
                 totalLength + segmentLength
                   + (IF i < segmentCount THEN segmentGap ELSE 0),
                 Append(cloneZ, totalLength))

CargoOf(targetCargoMass, q1, q2, q3, q4, pod, q5, segment) ==
  LET segmentCount == howManySegmentsOfCargo(targetCargoMass, q1)
      podsPerSegment == howManyPodsPerSegment(targetCargoMass, q2)
      targetSegmentMass == targetCargoMass \div segmentCount
      targetPodMass == targetSegmentMass \div podsPerSegment
      podMass == getClosestPodMass(targetPodMass)
      totalCargoMass == podMass * podsPerSegment * segmentCount
      segmentGap == 10 + random(q5) \div 20
      d == <<q1, q2, q3, q4>> \o pod.d \o <<q5>> \o segment.d
  IN IF segment.threw THEN [threw |-> TRUE, d |-> d]
     ELSE LET loop == CloneLoop(0, segmentCount, segment.depth, segmentGap,
                                segmentGap, <<>>)
          IN [threw |-> FALSE,
              mass |-> totalCargoMass,
              length |-> loop.totalLength,
              width |-> segment.width,
              height |-> segment.height,
              podsPerSegment |-> podsPerSegment,
              segmentCount |-> segmentCount,
              podShape |-> getPodShape(q3),
              podMass |-> podMass,
              doRotation |-> (random(q4) < 500),
              segmentGap |-> segmentGap,
              segmentLength |-> segment.depth,
              layout |-> segment.layout,
              cloneZ |-> loop.cloneZ,
              parts |-> {Translate(e, loop.cloneZ[i]) :
                           e \in segment.parts, i \in 1 .. segmentCount},
              d |-> d]

\* makeCargoSection: every result it can produce from seed value k on
makeCargoSection(targetCargoMass, k) ==
  UNION {
    UNION {
      UNION {
        {CargoOf(targetCargoMass, q1, q2, q3, q4, pod, q5, segment) :
           segment \in makeSegmentMesh(pod,
                         howManyPodsPerSegment(targetCargoMass, q2),
                         k + 5 + Len(pod.d))} :
        q5 \in Pick(k + 4 + Len(pod.d), Low)} :
      pod \in createPod(
                getClosestPodMass((targetCargoMass
                    \div howManySegmentsOfCargo(targetCargoMass, q1))
                    \div howManyPodsPerSegment(targetCargoMass, q2)),
                getPodShape(q3), k + 4)} :
    q1 \in Pick(k, EndsOf(LAMBDA q : howManySegmentsOfCargo(targetCargoMass, q))),
    q2 \in Pick(k + 1, EndsOf(LAMBDA q : howManyPodsPerSegment(targetCargoMass, q))),
    q3 \in Pick(k + 2, Reps(getPodShape)), q4 \in Pick(k + 3, Low)}

\* --------------------------------------------------------- thruster layouts
\* n positions on a circle: position i at the angle
\* (i / n) * 2 pi - pi / 2 + (phase ? pi / n : 0)
RingOf(n, radius, phase) ==
  [i \in 1 .. n |->
     [x |-> (CosT(4 * (i - 1) - n + 2 * phase, 4 * n) * radius) \div 10000,
      y |-> (SinT(4 * (i - 1) - n + 2 * phase, 4 * n) * radius) \div 10000]]

\* a ring loop that fills every ring to its capacity
RECURSIVE RingLoopFull(_, _, _, _, _)
RingLoopFull(enginesLeft, baseRadius, ring, thrusterSize, positions) ==
  IF enginesLeft <= 0 THEN positions
  ELSE LET ringCirc == MulF(2 * PI, baseRadius)
           maxThisRing == ringCirc \div MulF(thrusterSize, 1100)
       IN RingLoopFull(enginesLeft - Max(1, maxThisRing),
                       baseRadius + MulF(thrusterSize, 1150),
                       ring + 1, thrusterSize,
                       positions \o RingOf(Max(1, maxThisRing), baseRadius, ring % 2))

RECURSIVE RingLoop(_, _, _, _, _)
RingLoop(enginesLeft, baseRadius, ring, thrusterSize, positions) ==
  IF enginesLeft <= 0 THEN positions
  ELSE LET ringCirc == MulF(2 * PI, baseRadius)
           maxThisRing == ringCirc \div MulF(thrusterSize, 1100)
           thisRingCount == Min(maxThisRing, enginesLeft)
                              - (IF enginesLeft - maxThisRing = 1 THEN 1 ELSE 0)
       IN RingLoop(enginesLeft - thisRingCount,
                   baseRadius + MulF(thrusterSize, 1150),
                   ring + 1, thrusterSize,
                   positions \o RingOf(thisRingCount, baseRadius, ring % 2))

RadialOf(thrusterCount, thrusterSize, q) ==
  LET maxCenterCount == IF thrusterCount <= 4 THEN thrusterCount ELSE thrusterCount \div 3
      minCenterCount == IF thrusterCount <= 4 THEN thrusterCount ELSE 0
      centerCount == int(q, minCenterCount, maxCenterCount)
      minCirc == MulF(centerCount * 1000 + 1600, thrusterSize)
      centerRadius == IF centerCount > 1 THEN DivF(minCirc, 2 * PI) ELSE 0
      centre == IF centerCount = 1 THEN <<[x |-> 0, y |-> 0]>>
                ELSE IF centerCount > 1 THEN RingOf(centerCount, centerRadius, 0)
                ELSE <<>>
  IN [null |-> FALSE,
      centerCount |-> centerCount,
      positions |-> RingLoop(thrusterCount - centerCount,
                             centerRadius + MulF(thrusterSize, 1150), 0,
                             thrusterSize, centre),
      d |-> <<q>>]

CenterCountOf(thrusterCount, q) ==
  int(q, IF thrusterCount <= 4 THEN thrusterCount ELSE 0,
         IF thrusterCount <= 4 THEN thrusterCount ELSE thrusterCount \div 3)

radialThrusterLayout(thrusterCount, thrusterSize, k) ==
  {RadialOf(thrusterCount, thrusterSize, q) :
     q \in Pick(k, Sites(LAMBDA r : CenterCountOf(thrusterCount, r)))}

RECURSIVE EvenGridLoop(_, _, _)
EvenGridLoop(engines, rows, configurations) ==
  IF rows * rows > engines THEN configurations
  ELSE LET cols == engines \div rows
       IN EvenGridLoop(engines, rows + 1,
            IF engines % rows = 0 /\ cols >= 2
            THEN configurations \o <<<<cols, rows>>>>
                   \o (IF rows # cols THEN <<<<rows, cols>>>> ELSE <<>>)
            ELSE configurations)

\* the search for grids begun at three rows
findGridsFromThree(engines) == EvenGridLoop(engines, 3, <<>>)

findEvenGridConfigurations(engines) == EvenGridLoop(engines, 2, <<>>)

\* a grid whose units are 0.3 of their size apart
SpacingTight(thrusterSize) == MulF(thrusterSize, 300)

\* let spacing = thrusterSize * 1.3
Spacing(thrusterSize) == MulF(thrusterSize, 1300)

GridOf(thrusterCount, thrusterSize, q) ==
  LET configs == findEvenGridConfigurations(thrusterCount)
      config == configs[int(q, 0, Len(configs) - 1) + 1]
      cols == config[1]
      rows == config[2]
      spacing == Spacing(thrusterSize)
      startX == -(((cols - 1) * spacing) \div 2)
      startY == -(((rows - 1) * spacing) \div 2)
  IN [null |-> FALSE,
      cols |-> cols,
      rows |-> rows,
      positions |-> [i \in 1 .. rows * cols |->
                       [x |-> startX + ((i - 1) % cols) * spacing,
                        y |-> startY + ((i - 1) \div cols) * spacing]],
      d |-> <<q>>]

NoLayout == [null |-> TRUE, d |-> <<>>]

gridThrusterLayout(thrusterCount, thrusterSize, k) ==
  LET configs == findEvenGridConfigurations(thrusterCount)
  IN IF Len(configs) = 0 THEN {NoLayout}
     ELSE {GridOf(thrusterCount, thrusterSize, q) :
             q \in Pick(k, Sites(LAMBDA r : int(r, 0, Len(configs) - 1)))}

\* the odd row counts n = 3, 5, ... up to maxRows
RECURSIVE StaggeredLoop(_, _, _)
StaggeredLoop(engines, n, configs) ==
  IF n > (2 * engines - 1) \div 3 THEN configs
  ELSE LET numerator == 2 * engines - n - 1
           denominator == 2 * n
           k == numerator \div denominator
       IN StaggeredLoop(engines, n + 2,
            IF numerator >= 0 /\ numerator % denominator = 0 /\ k > 0
            THEN Append(configs, [row \in 1 .. n |-> IF row % 2 = 1 THEN k + 1 ELSE k])
            ELSE configs)

findStaggeredConfigurations(engines) == StaggeredLoop(engines, 3, <<>>)

\* the positions of the lines from line i on: line i holds config[i] units,
\* centred, along the axis `vertical` selects
RECURSIVE StaggeredLines(_, _, _, _, _)
StaggeredLines(config, i, spacing, vertical, positions) ==
  IF i > Len(config) THEN positions
  ELSE LET across == i - 1
           start == -(((Len(config) - 1) * spacing) \div 2)
           lineStart == -(((config[i] - 1) * spacing) \div 2)
           line == [j \in 1 .. config[i] |->
                      IF vertical
                      THEN [x |-> lineStart + (j - 1) * spacing,
                            y |-> start + across * spacing]
                      ELSE [x |-> start + across * spacing,
                            y |-> lineStart + (j - 1) * spacing]]
       IN StaggeredLines(config, i + 1, spacing, vertical, positions \o line)

OffsetGridOf(thrusterCount, thrusterSize, q1, q2) ==
  LET configs == findStaggeredConfigurations(thrusterCount)
      config == configs[int(q1, 0, Len(configs) - 1) + 1]
      orientation == IF random(q2) < 500 THEN "vertical" ELSE "horizontal"
  IN [null |-> FALSE,
      config |-> config,
      orientation |-> orientation,
      positions |-> StaggeredLines(config, 1, Spacing(thrusterSize),
                                   orientation = "vertical", <<>>),
      d |-> <<q1, q2>>]

offsetGridThrusterLayout(thrusterCount, thrusterSize, k) ==
  LET configs == findStaggeredConfigurations(thrusterCount)
  IN IF Len(configs) = 0 THEN {NoLayout}
     ELSE {OffsetGridOf(thrusterCount, thrusterSize, q1, q2) :
             q1 \in Pick(k, Sites(LAMBDA r : int(r, 0, Len(configs) - 1))),
             q2 \in Pick(k + 1, Ends)}

\* ---------------------------------------------------------------- thrusters
\* a layout result that is always flagged radial
ChosenRadial(pre, l, layout) ==
  [null |-> FALSE, positions |-> l.positions, isRadial |-> TRUE,
   layout |-> layout, d |-> pre \o l.d]

\* a layout result as makeThrusters keeps it, with all the draws made for it
Chosen(pre, l, layout) ==
  [null |-> FALSE, positions |-> l.positions, isRadial |-> layout = "radial",
   layout |-> layout, d |-> pre \o l.d]

UseRadial(thrusterCount, thrusterSize, k, pre) ==
  {Chosen(pre, r, "radial") : r \in radialThrusterLayout(thrusterCount, thrusterSize, k)}

\* the grid layout, and the radial layout if it returns null
GridElseRadial(thrusterCount, thrusterSize, k, pre) ==
  UNION {IF grid.null THEN UseRadial(thrusterCount, thrusterSize, k, pre)
         ELSE {Chosen(pre, grid, "grid")} :
         grid \in gridThrusterLayout(thrusterCount, thrusterSize, k)}

\* the offset grid layout, and the radial layout if it returns null
OffsetElseRadial(thrusterCount, thrusterSize, k, pre) ==
  UNION {IF offset.null THEN UseRadial(thrusterCount, thrusterSize, k, pre)
         ELSE {Chosen(pre, offset, "offset")} :
         offset \in offsetGridThrusterLayout(thrusterCount, thrusterSize, k)}

\* the offset grid layout, then the grid layout, then the radial layout
OffsetElseGrid(thrusterCount, thrusterSize, k, pre) ==
  UNION {IF offset.null THEN GridElseRadial(thrusterCount, thrusterSize, k, pre)
         ELSE {Chosen(pre, offset, "offset")} :
         offset \in offsetGridThrusterLayout(thrusterCount, thrusterSize, k)}

\* makeThrusters, lines 34-70: `a && rng.random() < 0.5` draws only if a holds
LayoutSelection(thrusterCount, thrusterSize, k) ==
  IF thrusterCount >= 7
  THEN UNION {
         IF random(q1) < 500
         THEN OffsetElseGrid(thrusterCount, thrusterSize, k + 1, <<q1>>)
         ELSE UNION {
                IF random(q2) < 500
                THEN GridElseRadial(thrusterCount, thrusterSize, k + 2, <<q1, q2>>)
                ELSE UseRadial(thrusterCount, thrusterSize, k + 2, <<q1, q2>>) :
                q2 \in Pick(k + 1, Ends)} :
         q1 \in Pick(k, Ends)}
  ELSE IF thrusterCount > 3
  THEN UNION {
         IF random(q1) < 500
         THEN GridElseRadial(thrusterCount, thrusterSize, k + 1, <<q1>>)
         ELSE UseRadial(thrusterCount, thrusterSize, k + 1, <<q1>>) :
         q1 \in Pick(k, Ends)}
  ELSE UseRadial(thrusterCount, thrusterSize, k, <<>>)

\* a thruster power whose maximum ignores the ship's mass
ThrusterPowerUncapped(totalShipMass, q) ==
  range(q, Max(MIN_THRUSTER_POWER * 1000, totalShipMass \div MAX_THRUSTER_COUNT),
        MAX_THRUSTER_POWER * 1000)

ThrusterPower(totalShipMass, q) ==
  LET minThrusterPower == Max(MIN_THRUSTER_POWER * 1000, totalShipMass \div MAX_THRUSTER_COUNT)
      maxThrusterPower == Min(MAX_THRUSTER_POWER * 1000, totalShipMass \div MIN_THRUSTER_COUNT)
  IN range(q, minThrusterPower, maxThrusterPower)

ThrusterCount(totalShipMass, q) == Round(totalShipMass, ThrusterPower(totalShipMass, q))

\* thrusterNozzelDiameter: area = 0.015 * power, diameter = 2 * sqrt(area / pi)
ThrusterDiameter(thrusterPower) == 2 * Sqrt(DivF(MulF(15, thrusterPower), PI))

ThrustersOf(totalShipMass, q1, q2, sel, q3) ==
  LET thrusterPower == ThrusterPower(totalShipMass, q1)
      thrusterNozzelDiameter == ThrusterDiameter(thrusterPower)
      thrusterDepth == DivF(thrusterNozzelDiameter, range(q3, 500, 4000))
  IN [length |-> thrusterDepth,
      totalShipMass |-> totalShipMass,
      isRadial |-> sel.isRadial,
      thrusterPositions |-> sel.positions,
      thrusterSize |-> thrusterNozzelDiameter,
      thrusterPower |-> thrusterPower,
      thrusterCount |-> ThrusterCount(totalShipMass, q1),
      layout |-> sel.layout,
      parts |-> IF Len(sel.positions) = 0 THEN {}
                ELSE {RearAtZero("nozzle", thrusterDepth),
                      Translate(Centred("glow", MulF(thrusterNozzelDiameter, 1500)),
                                -Half(thrusterNozzelDiameter))},
      d |-> <<q1, q2>> \o sel.d \o <<q3>>]

\* makeThrusters: every result it can produce from seed value k on
makeThrusters(totalShipMass, k) ==
  UNION {
    UNION {
      {ThrustersOf(totalShipMass, q1, q2, sel, q3) :
         q3 \in Pick(k + 2 + Len(sel.d), Low)} :
      sel \in LayoutSelection(ThrusterCount(totalShipMass, q1),
                              ThrusterDiameter(ThrusterPower(totalShipMass, q1)),
                              k + 2)} :
    q1 \in Pick(k, Mid3), q2 \in Pick(k + 1, Low)}

\* ------------------------------------------------------------- engine block
\* the least and the greatest member of a non-empty set of integers
SetMin(S) == CHOOSE m \in S : \A n \in S : m <= n
SetMax(S) == CHOOSE m \in S : \A n \in S : m >= n

EngineBlockOf(isRadial, thrusterPositions, thrusterSize, engineBlockMass, q1, taper) ==
  LET boundingBoxPaddingScalar == MulF(random(q1), 200) + 100
      xs == {thrusterPositions[i].x : i \in DOMAIN thrusterPositions}
      ys == {thrusterPositions[i].y : i \in DOMAIN thrusterPositions}
      pad == Half(thrusterSize)
               + MulF(boundingBoxPaddingScalar, 3000 \div Len(thrusterPositions))
      minX == SetMin(xs) - pad
      maxX == SetMax(xs) + pad
      minY == SetMin(ys) - pad
      maxY == SetMax(ys) + pad
      width == maxX - minX
      height == maxY - minY
      maxR == SetMax({0} \cup {Isqrt(thrusterPositions[i].x * thrusterPositions[i].x
                                      + thrusterPositions[i].y * thrusterPositions[i].y) :
                                 i \in DOMAIN thrusterPositions})
      engineRadius == maxR + MulF(thrusterSize, 600)
      forwardTaperAmount ==
        IF Len(taper) = 2 THEN 750 + MulF(random(taper[2]), 250) ELSE 1000
      rearRadius == engineRadius + pad
      forwardRadius == MulF(rearRadius, forwardTaperAmount)
      engineBlockDepth ==
        IF isRadial
        THEN DivF(3 * engineBlockMass,
                  MulF(PI, MulF(forwardRadius, forwardRadius)
                             + MulF(forwardRadius, rearRadius)
                             + MulF(rearRadius, rearRadius)))
        ELSE DivF(engineBlockMass, MulF(width, height))
  IN [length |-> engineBlockDepth,
      width |-> width,
      height |-> height,
      shape |-> IF isRadial THEN "cylinder" ELSE "box",
      rearRadius |-> IF isRadial THEN rearRadius ELSE 0,
      forwardRadius |-> IF isRadial THEN forwardRadius ELSE 0,
      parts |-> {RearAtZero("block", engineBlockDepth)},
      d |-> <<q1>> \o taper]

\* makeEngineBlock: every result it can produce from seed value k on; only a
\* radial block draws its taper, and the taper amount only if the first draw
\* is below 0.5
makeEngineBlock(isRadial, thrusterPositions, thrusterSize, engineBlockMass, k) ==
  UNION {
    {EngineBlockOf(isRadial, thrusterPositions, thrusterSize, engineBlockMass, q1, taper) :
       taper \in IF ~isRadial THEN {<<>>}
                 ELSE UNION {IF random(q2) < 500
                             THEN {<<q2, q3>> : q3 \in Pick(k + 2, Low)}
                             ELSE {<<q2>>} :
                             q2 \in Pick(k + 1, Low)}} :
    q1 \in Pick(k, Low)}

\* ------------------------------------------------------------- command deck
\* BoxCommandDeckGenerator.addWindows: the row of windows put on the top face
\* of a box of width boxWidth and depth boxDepth, with the draws q1..q4
BoxWindowsOf(boxWidth, boxDepth, q1, q2, q3, q4) ==
  LET windowWidth == 80 + MulF(random(q1), 80)
      windowDepth == 60 + MulF(random(q2), 60)
      marginX == MulF(boxWidth, 150)
      availableWidth == boxWidth - marginX * 2
      windowFrameSpacing == 20 + MulF(random(q3), 30)
      windowSpacingX == windowWidth + windowFrameSpacing
      maxWindows == availableWidth \div windowSpacingX
      windowCount == Max(2, Min(10, maxWindows))
  IN IF windowCount < 2
     THEN [windowCount |-> 0, windowWidth |-> windowWidth,
           windowSpacingX |-> windowSpacingX, availableWidth |-> availableWidth,
           zPosition |-> 0, d |-> <<q1, q2, q3>>]
     ELSE [windowCount |-> windowCount, windowWidth |-> windowWidth,
           windowSpacingX |-> windowSpacingX, availableWidth |-> availableWidth,
           zPosition |-> MulF(boxDepth, 300 + MulF(random(q4), 550)),
           d |-> <<q1, q2, q3, q4>>]

\* BoxCommandDeckGenerator.generate: every box deck it can make from seed
\* value k on
BoxDeck(mass, k) ==
  UNION {
    LET aspectA == 100 + 3 * random(qa)
        aspectB == 100 + 3 * random(qb)
        d == Max(300, Min(Cbrt(DivF(mass, MulF(aspectA, aspectB))), 50000))
        deckWidth == MulF(aspectA, d)
    IN {[shape |-> "box", length |-> d, width |-> deckWidth,
         height |-> MulF(aspectB, d),
         windows |-> BoxWindowsOf(deckWidth, d, q1, q2, q3, q4),
         d |-> <<qa, qb>> \o BoxWindowsOf(deckWidth, d, q1, q2, q3, q4).d] :
        q1 \in Pick(k + 2, Ends), q2 \in Pick(k + 3, Low),
        q3 \in Pick(k + 4, Ends), q4 \in Pick(k + 5, Ends)} :
    qa \in Pick(k, Ends), qb \in Pick(k + 1, Ends)}

\* CylinderCommandDeckGenerator.addWindows: the number of windows added, the
\* extent of a window and the draws made
CylinderWindows(bigRadius, smallRadius, depth, k) ==
  UNION {
    LET depthPosition == 300 + MulF(random(q1), 400)
        zPos == MulF(depth, depthPosition)
        radiusAtZ == bigRadius + MulF(smallRadius - bigRadius, depthPosition)
        availableSpaceForWindows == MulF(radiusAtZ, 700)
    IN IF availableSpaceForWindows < 120
       THEN {[windowCount |-> 0, zPos |-> zPos, d |-> <<q1>>]}
       ELSE UNION {
              LET aspectRatio == 500 + MulF(random(q2), 1500)
                  windowFrameSpacing == 20 + MulF(random(q3), 50)
                  idealWindowWidth == Min(MulF(120, aspectRatio), 200)
                  maxPossibleWindows ==
                    (availableSpaceForWindows + windowFrameSpacing)
                      \div (idealWindowWidth + windowFrameSpacing)
                  maxDesiredWindows == Min(10, maxPossibleWindows)
              IN IF maxDesiredWindows < 2
                 THEN {[windowCount |-> 0, zPos |-> zPos, d |-> <<q1, q2, q3>>]}
                 ELSE {[windowCount |->
                          Floor(random(q4) * (maxDesiredWindows - 2 + 1)) + 2,
                        zPos |-> zPos,
                        d |-> <<q1, q2, q3, q4>>] : q4 \in Pick(k + 3, Low)} :
              q2 \in Pick(k + 1, Low), q3 \in Pick(k + 2, Low)} :
    q1 \in Pick(k, Low)}

\* CylinderCommandDeckGenerator.generate: the deck made with the draws q1, q2
\* and, for a tapered deck, taper[1], and with the windows w
CylinderDeckOf(mass, q1, q2, taper, w, g) ==
  [shape |-> "cylinder",
   length |-> g.depth,
   width |-> g.bigRadius * 2,
   height |-> g.bigRadius * 2,
   windowCount |-> w.windowCount,
   parts |-> {RearAtZero("hull", g.depth)}
               \cup {Translate(Centred("window", 120), w.zPos) :
                       i \in 1 .. Min(1, w.windowCount)},
   d |-> <<q1, q2>> \o taper \o w.d]

CylinderGeometryOf(mass, q1, q2, taper) ==
  makeTaperedCylinderGeometry(mass, range(q2, 1000, 2000),
                              IF random(q1) < 500 THEN range(taper[1], 100, 900)
                              ELSE 1000)

CylinderDeck(mass, k) ==
  UNION {
    UNION {
      LET g == CylinderGeometryOf(mass, q1, q2, taper)
      IN {CylinderDeckOf(mass, q1, q2, taper, w, g) :
            w \in CylinderWindows(g.bigRadius, g.smallRadius, g.depth,
                                  k + 2 + Len(taper))} :
      taper \in IF random(q1) < 500 THEN {<<q3>> : q3 \in Pick(k + 2, Low)}
                ELSE {<<>>}} :
    q1 \in Pick(k, Low), q2 \in Pick(k + 1, Low)}

\* CommandDeckFactory's constructor: the weights of the registered shapes
shapeWeights ==
  <<[shape |-> "box", weight |-> 2], [shape |-> "cylinder", weight |-> 2],
    [shape |-> "trapezoid", weight |-> 2]>>

\* cumulative.findIndex(sum => randomValue < sum), -1 if there is none
RECURSIVE findIndex(_, _, _, _)
findIndex(weights, i, total, randomValue) ==
  IF i > Len(weights) THEN -1
  ELSE IF randomValue < (total + weights[i].weight) * 1000 THEN i
  ELSE findIndex(weights, i + 1, total + weights[i].weight, randomValue)

RECURSIVE SumWeights(_, _)
SumWeights(weights, i) ==
  IF i > Len(weights) THEN 0 ELSE weights[i].weight + SumWeights(weights, i + 1)

\* selectWeightedShape: the shape the draw q selects among the shapes of
\* positive weight; "none" stands for the Error thrown when there is none
selectWeightedShape(weights, q) ==
  LET IsActive(sw) == sw.weight > 0
      activeWeights == SelectSeq(weights, IsActive)
      total == SumWeights(activeWeights, 1)
      index == findIndex(activeWeights, 1, 0, random(q) * total)
  IN IF Len(activeWeights) = 0 THEN "none"
     ELSE activeWeights[IF index = -1 THEN Len(activeWeights) ELSE index].shape

\* a selection that ignores the debug override
getRandomGeneratorByWeight(k) ==
  {[shape |-> selectWeightedShape(shapeWeights, q), d |-> <<q>>] :
     q \in Pick(k, Reps(LAMBDA r : selectWeightedShape(shapeWeights, r)))}

\* getRandomGenerator: the forced shape without a draw if DEBUG_FORCE_SHAPE is
\* not null, the weighted selection otherwise
getRandomGenerator(k) ==
  IF debugForceShape # "null"
  THEN {[shape |-> debugForceShape, d |-> <<>>]}
  ELSE {[shape |-> selectWeightedShape(shapeWeights, q), d |-> <<q>>] :
          q \in Pick(k, Reps(LAMBDA r : selectWeightedShape(shapeWeights, r)))}

\* makeCommandDeck: the factory's generator, then its generate on the same rng
makeCommandDeck(commandDeckMass, k) ==
  UNION {
    CASE g.shape = "cylinder" ->
           {[c EXCEPT !.d = g.d \o @] :
              c \in CylinderDeck(commandDeckMass, k + Len(g.d))}
      [] g.shape = "box" ->
           {[c EXCEPT !.d = g.d \o @] :
              c \in BoxDeck(commandDeckMass, k + Len(g.d))} :
    g \in getRandomGenerator(k)}

\* ------------------------------------------------------------ generateShip
NoGen == [attachmentZ |-> 0]
NoCall == [fn |-> "none"]

Init ==
  /\ pc = "idle"
  /\ seed = <<>>
  /\ rngSeed = 0
  /\ draws = <<>>
  /\ sinTable = <<>>
  /\ gens = 0
  /\ scene = {}
  /\ currentShipRef = 0
  /\ disposed = <<>>
  /\ roots = <<>>
  /\ urlSeed = <<>>
  /\ debugForceShape = "cylinder"
  /\ factory = FALSE
  /\ ui = NoUi
  /\ gen = NoGen
  /\ cleanStart = FALSE
  /\ cleanRuns = {}
  /\ call = NoCall

\* a URL whose seed parameter grows by the seed
replaceStateAppended(url, s) == url \o s

\* lines 28-32: the URL's seed parameter is set to the seed unless it is the seed
replaceState(url, s) == IF url # s THEN s ELSE url

\* a scene that keeps the object it was asked to remove
removeNothing(sc, object) == sc

\* scene.remove(object)
remove(sc, object) == sc \ {object}

\* object.traverse(child => dispose of child.geometry and child.material)
traverseDispose(d, object) == [d EXCEPT ![object] = @ + 1]

\* generateShip, lines 26-46: the URL update, the removal and disposal of the
\* previous ship, and the new rng and ship group
BeginGenerate(s) ==
  /\ pc \in {"idle", "threw"}
  /\ gens < MaxGens
  /\ gens' = gens + 1
  /\ seed' = s
  /\ urlSeed' = replaceState(urlSeed, s)
  /\ scene' = IF currentShipRef # 0 THEN remove(scene, currentShipRef) ELSE scene
  /\ disposed' = IF currentShipRef # 0
                 THEN traverseDispose(disposed, currentShipRef)
                 ELSE disposed
  /\ rngSeed' = SeededRandom(s)
  /\ draws' = <<>>
  /\ gen' = [attachmentZ |-> 0, ship |-> [z |-> 0, children |-> <<>>]]
  /\ cleanStart' = (scene = {} /\ currentShipRef = 0 /\ debugForceShape = "cylinder")
  /\ pc' = "budget"
  /\ UNCHANGED <<call, ui, factory, sinTable, currentShipRef, roots, debugForceShape, cleanRuns>>

\* generateShip, lines 49-59: the mass scalar and the mass ratios
MassBudgetOf(q1, q2, q3) ==
  LET shipMassScalar == (1000 * q1 * q1 * q1 * q1) \div (RES * RES * RES * RES)
      targetTotalShipMass ==
        SHIP_MIN_MASS * 1000 + shipMassScalar * (SHIP_MAX_MASS - SHIP_MIN_MASS)
      maxCommandDeckMassRatio == 30 * (1000 - (shipMassScalar * 1000) \div 1200)
      commandDeckMassRatio == range(q2, 5000, maxCommandDeckMassRatio) \div 100
      maxEngineBlockMassRatio == 30 * (1000 - (shipMassScalar * 1000) \div 1200)
      engineMassRatio == range(q3, 5000, maxEngineBlockMassRatio) \div 100
      cargoMassRatio == 1000 - (commandDeckMassRatio + engineMassRatio)
  IN [shipMassScalar |-> shipMassScalar,
      targetTotalShipMass |-> targetTotalShipMass,
      commandDeckMassRatio |-> commandDeckMassRatio,
      engineMassRatio |-> engineMassRatio,
      targetCargoMass |-> MulF(targetTotalShipMass, cargoMassRatio),
      d |-> <<q1, q2, q3>>]

MassBudget ==
  /\ pc = "budget"
  /\ \E q1 \in Pick(rngSeed, Mid3), q2 \in Pick(rngSeed + 1, Ends),
        q3 \in Pick(rngSeed + 2, Ends) :
       LET b == MassBudgetOf(q1, q2, q3)
       IN /\ gen' = [shipMassScalar |-> b.shipMassScalar,
                     targetTotalShipMass |-> b.targetTotalShipMass,
                     commandDeckMassRatio |-> b.commandDeckMassRatio,
                     engineMassRatio |-> b.engineMassRatio,
                     targetCargoMass |-> b.targetCargoMass] @@ gen
          /\ Drawn(b.d)
  /\ pc' = "cargo"
  /\ UNCHANGED <<call, ui, factory, seed, gens, scene, currentShipRef, disposed, roots, urlSeed,
                 debugForceShape, cleanStart, cleanRuns>>

\* a total made of the cargo mass aimed at
TotalOfTargets(cargoMass, commandDeckMass, engineBlockMass) ==
  gen.targetCargoMass + commandDeckMass + engineBlockMass

\* generateShip, line 86: the total mass after the cargo section reported its own
TotalShipMass(cargoMass, commandDeckMass, engineBlockMass) ==
  cargoMass + commandDeckMass + engineBlockMass

\* what a call that began clean did and made
RunOf(ds, g, root) ==
  [run |-> gens, seed |-> seed, draws |-> ds, gen |-> g, root |-> root]
NoRoot == [z |-> 0, children |-> <<>>]

\* getFactory: the singleton factory is created by the first call that needs it
getFactory == TRUE

\* generateShip, lines 64-86: the cargo section is generated first, and its
\* realized mass settles the total ship mass
CargoSection ==
  /\ pc = "cargo"
  /\ \E c \in makeCargoSection(gen.targetCargoMass, rngSeed) :
       /\ Drawn(c.d)
       /\ IF c.threw
          THEN /\ pc' = "threw"
               /\ gen' = gen
               /\ cleanRuns' = IF cleanStart THEN cleanRuns \cup {RunOf(draws \o c.d, gen, NoRoot)}
                                ELSE cleanRuns
          ELSE /\ pc' = "thrusters"
               /\ cleanRuns' = cleanRuns
               /\ LET commandDeckMass == MulF(gen.targetTotalShipMass, gen.commandDeckMassRatio)
                      engineBlockMass == MulF(gen.targetTotalShipMass, gen.engineMassRatio)
                  IN gen' = [cargoSection |-> c,
                             cargoMass |-> c.mass,
                             commandDeckMass |-> commandDeckMass,
                             engineBlockMass |-> engineBlockMass,
                             totalShipMass |->
                               TotalShipMass(c.mass, commandDeckMass, engineBlockMass)]
                              @@ gen
  /\ UNCHANGED <<call, ui, factory, seed, gens, scene, currentShipRef, disposed, roots, urlSeed,
                 debugForceShape, cleanStart>>

\* a section's mesh as a child of the ship group
Child(kind, z, section) == [kind |-> kind, z |-> z, parts |-> section.parts]

\* an attachment point advanced by half a section
AdvanceHalf(attachmentZ, section) == attachmentZ + Half(section.length)

\* attachmentZ += section.length
Advance(attachmentZ, section) == attachmentZ + section.length

\* a ship group moved back by its whole length
CentreAtEnd(ship, endAttachmentPoint) == [ship EXCEPT !.z = -endAttachmentPoint]

\* ship.position.z = -endAttachmentPoint / 2
Centre(ship, endAttachmentPoint) == [ship EXCEPT !.z = -Half(endAttachmentPoint)]

\* a group that drops the child it is given
addNothing(group, child) == group

\* Object3D.add: the child is appended to the group's children
add(group, child) == [group EXCEPT !.children = Append(@, child)]

\* generateShip, lines 89-100: the thruster section, placed at z = 0
Thrusters ==
  /\ pc = "thrusters"
  /\ \E t \in makeThrusters(gen.totalShipMass, rngSeed) :
       /\ Drawn(t.d)
       /\ gen' = [thrusterSection |-> t,
                   ship |-> add(gen.ship, Child("thrusters", 0, t)),
                   attachmentZ |-> Advance(gen.attachmentZ, t),
                   thrusterAttachmentPoint |-> Advance(gen.attachmentZ, t),
                   isRadial |-> t.isRadial,
                   thrusterPositions |-> t.thrusterPositions,
                   thrusterSize |-> t.thrusterSize] @@ gen
  /\ pc' = "engine"
  /\ UNCHANGED <<call, ui, factory, seed, gens, scene, currentShipRef, disposed, roots, urlSeed,
                 debugForceShape, cleanStart, cleanRuns>>

\* generateShip, lines 103-114: the engine block, placed at the attachment
\* point the thrusters left
EngineBlock ==
  /\ pc = "engine"
  /\ \E e \in makeEngineBlock(gen.isRadial, gen.thrusterPositions, gen.thrusterSize,
                              gen.engineBlockMass, rngSeed) :
       /\ Drawn(e.d)
       /\ gen' = [engineBlockSection |-> e,
                   ship |-> add(gen.ship, Child("engineBlock", gen.attachmentZ, e)),
                   attachmentZ |-> Advance(gen.attachmentZ, e),
                   cargoAttachmentPoint |-> Advance(gen.attachmentZ, e)] @@ gen
  /\ pc' = "placeCargo"
  /\ UNCHANGED <<call, ui, factory, seed, gens, scene, currentShipRef, disposed, roots, urlSeed,
                 debugForceShape, cleanStart, cleanRuns>>

\* generateShip, lines 117-120: the cargo section generated earlier is placed
PlaceCargo ==
  /\ pc = "placeCargo"
  /\ gen' = [ship |-> add(gen.ship, Child("cargo", gen.attachmentZ, gen.cargoSection)),
             attachmentZ |-> Advance(gen.attachmentZ, gen.cargoSection),
             commandDeckAttachmentPoint |-> Advance(gen.attachmentZ, gen.cargoSection)]
              @@ gen
  /\ pc' = "commandDeck"
  /\ UNCHANGED <<call, ui, factory, seed, rngSeed, draws, sinTable, gens, scene, currentShipRef, disposed,
                 roots, urlSeed, debugForceShape, cleanStart, cleanRuns>>

\* generateShip, lines 123-131: the command deck
CommandDeck ==
  /\ pc = "commandDeck"
  /\ \E c \in makeCommandDeck(gen.commandDeckMass, rngSeed) :
       /\ Drawn(c.d)
       /\ gen' = [commandDeckSection |-> c,
                   ship |-> add(gen.ship, Child("commandDeck", gen.attachmentZ, c)),
                   attachmentZ |-> Advance(gen.attachmentZ, c),
                   endAttachmentPoint |-> Advance(gen.attachmentZ, c)] @@ gen
  /\ factory' = getFactory
  /\ pc' = "finish"
  /\ UNCHANGED <<call, ui, seed, gens, scene, currentShipRef, disposed, roots, urlSeed,
                 debugForceShape, cleanStart, cleanRuns>>

\* addDebugLine: two lines through z are added to the ship group
DebugLine(z) == [kind |-> "debugLine", z |-> 0, parts |-> {Extent("line", z, z)}]

addOneDebugLine(ship, z) == add(ship, DebugLine(z))

addDebugLine(ship, z) == add(add(ship, DebugLine(z)), DebugLine(z))

\* generateShip, lines 171-191: the debug lines, the centring of the ship
\* group, the root group and its publication.  The new root is numbered by
\* the generation that made it.
Finish ==
  /\ pc = "finish"
  /\ LET lined == addDebugLine(addDebugLine(addDebugLine(addDebugLine(gen.ship,
                    gen.thrusterAttachmentPoint), gen.cargoAttachmentPoint),
                    gen.commandDeckAttachmentPoint), gen.endAttachmentPoint)
         ship == Centre(lined, gen.endAttachmentPoint)
         shipRoot == [z |-> 0, children |-> <<ship>>]
     IN /\ gen' = [ship |-> ship] @@ gen
        /\ roots' = (gens :> shipRoot) @@ roots
        /\ disposed' = (gens :> 0) @@ disposed
        /\ currentShipRef' = gens
        /\ scene' = scene \cup {gens}
        /\ cleanRuns' = IF cleanStart
                        THEN cleanRuns \cup {RunOf(draws, gen', shipRoot)}
                        ELSE cleanRuns
  /\ pc' = "idle"
  /\ UNCHANGED <<call, ui, factory, seed, rngSeed, draws, sinTable, gens, urlSeed, debugForceShape,
                 cleanStart>>

\* a page reload: the scene and the ship reference start afresh and no ship
\* root of the page left is kept; the URL keeps its seed parameter
Reload ==
  /\ pc \in {"idle", "threw"}
  /\ gens < MaxGens
  /\ scene # {} \/ currentShipRef # 0
  /\ scene' = {}
  /\ currentShipRef' = 0
  /\ roots' = <<>>
  /\ disposed' = <<>>
  /\ debugForceShape' = "cylinder"
  /\ factory' = FALSE
  /\ pc' = "idle"
  /\ UNCHANGED <<call, ui, seed, rngSeed, draws, sinTable, gens, urlSeed, gen,
                 cleanStart, cleanRuns>>

Next ==
  \/ \E s \in Seeds : BeginGenerate(s)
  \/ MassBudget
  \/ CargoSection
  \/ Thrusters
  \/ EngineBlock
  \/ PlaceCargo
  \/ CommandDeck
  \/ Finish
  \/ Reload

Spec == Init /\ [][Next]_vars

\* ------------------------------------------- the layout functions on their own
\* the thruster counts and sizes the layout functions are called with
MaxCount == 36
LayoutSizes == {ThrusterDiameter(MIN_THRUSTER_POWER * 1000), 1000,
                ThrusterDiameter(MAX_THRUSTER_POWER * 1000)}
LayoutSeed == <<97>>

InitLayout ==
  /\ pc = "layout"
  /\ seed = LayoutSeed
  /\ rngSeed = hashCode(LayoutSeed)
  /\ draws = <<>>
  /\ sinTable = <<>>
  /\ gens = 0
  /\ scene = {}
  /\ currentShipRef = 0
  /\ disposed = <<>>
  /\ roots = <<>>
  /\ urlSeed = <<>>
  /\ debugForceShape = "cylinder"
  /\ factory = FALSE
  /\ ui = NoUi
  /\ gen = NoGen
  /\ cleanStart = FALSE
  /\ cleanRuns = {}
  /\ call = NoCall

\* a layout function is called once, with a generator new SeededRandom(LayoutSeed)
Called(fn, thrusterCount, thrusterSize, result) ==
  /\ call' = [fn |-> fn, thrusterCount |-> thrusterCount,
               thrusterSize |-> thrusterSize, result |-> result]
  /\ rngSeed' = hashCode(LayoutSeed) + Len(result.d)
  /\ draws' = result.d
  /\ sinTable' = [k \in DOMAIN sinTable
                       \cup (hashCode(LayoutSeed) .. hashCode(LayoutSeed) + Len(result.d) - 1) |->
                    IF k \in DOMAIN sinTable THEN sinTable[k]
                    ELSE result.d[k - hashCode(LayoutSeed) + 1]]
  /\ pc' = "called"
  /\ UNCHANGED <<factory, ui, seed, gens, scene, currentShipRef, disposed, roots, urlSeed,
                 debugForceShape, gen, cleanStart, cleanRuns>>

CallRadial ==
  /\ pc = "layout"
  /\ \E n \in 1 .. MaxCount, size \in LayoutSizes :
       \E r \in radialThrusterLayout(n, size, hashCode(LayoutSeed)) :
         Called("radial", n, size, r)

CallGrid ==
  /\ pc = "layout"
  /\ \E n \in 1 .. MaxCount, size \in LayoutSizes :
       \E r \in gridThrusterLayout(n, size, hashCode(LayoutSeed)) :
         Called("grid", n, size, r)

CallOffsetGrid ==
  /\ pc = "layout"
  /\ \E n \in 1 .. MaxCount, size \in LayoutSizes :
       \E r \in offsetGridThrusterLayout(n, size, hashCode(LayoutSeed)) :
         Called("offset", n, size, r)

\* makeThrusters' layout selection alone, for every thruster count
CallSelection ==
  /\ pc = "layout"
  /\ \E n \in 1 .. MaxCount, size \in LayoutSizes :
       \E r \in LayoutSelection(n, size, hashCode(LayoutSeed)) :
         Called("select", n, size, r)

\* the ship masses makeThrusters is called with on its own, in thousandths
ThrusterMasses == {1000, 3000, 12000}

\* makeThrusters alone, for a light ship
CallMakeThrusters ==
  /\ pc = "layout"
  /\ \E totalShipMass \in ThrusterMasses :
       \E t \in makeThrusters(totalShipMass, hashCode(LayoutSeed)) :
         Called("makeThrusters", t.thrusterCount, t.thrusterSize,
                [null |-> FALSE, positions |-> t.thrusterPositions,
                 totalShipMass |-> totalShipMass, d |-> t.d])

\* the command deck masses the box generator is called with, in thousandths
BoxMasses == {500, 2000}

\* the box command deck generator alone
CallBoxDeck ==
  /\ pc = "layout"
  /\ \E mass \in BoxMasses :
       \E deck \in BoxDeck(mass, hashCode(LayoutSeed)) :
         Called("boxDeck", 0, 0, [null |-> FALSE, positions |-> <<>>] @@ deck)

\* the greatest target pod mass getClosestPodMass is called with on its own
MaxPodTarget == 250

\* the target pod masses, in thousandths: every quarter from 0 to MaxPodTarget,
\* and the first value above the threshold
PodTargets == {250 * i : i \in 0 .. 4 * MaxPodTarget} \cup {200001}

\* getClosestPodMass alone
CallGetClosestPodMass ==
  /\ pc = "layout"
  /\ \E targetMass \in PodTargets :
       Called("getClosestPodMass", 0, 0,
              [null |-> FALSE, positions |-> <<>>, targetMass |-> targetMass,
               podMass |-> getClosestPodMass(targetMass), d |-> <<>>])

\* the cargo masses makeCargoSection is called with on its own, in thousandths
CargoMasses == {150000, 600000, 900000}

\* makeCargoSection alone
CallMakeCargoSection ==
  /\ pc = "layout"
  /\ \E targetCargoMass \in CargoMasses :
       \E c \in makeCargoSection(targetCargoMass, hashCode(LayoutSeed)) :
         Called("makeCargoSection", 0, 0,
                [null |-> FALSE, positions |-> <<>>,
                 targetCargoMass |-> targetCargoMass] @@ c)

\* the factory's getRandomGenerator alone, on the factory as constructed
CallGetRandomGenerator ==
  /\ pc = "layout"
  /\ \E g \in getRandomGenerator(hashCode(LayoutSeed)) :
       Called("getRandomGenerator", 0, 0,
              [null |-> FALSE, positions |-> <<>>] @@ g)

NextLayout ==
  \/ CallGetRandomGenerator
  \/ CallRadial
  \/ CallGrid
  \/ CallOffsetGrid
  \/ CallSelection
  \/ CallMakeThrusters
  \/ CallBoxDeck
  \/ CallGetClosestPodMass
  \/ CallMakeCargoSection

SpecLayout == InitLayout /\ [][NextLayout]_vars

\* ------------------------------------------------------ the page (main.ts)
\* number of calls of setSeedAndGenerate in a run of the page
MaxEvents == 4

\* the values Math.random() returns, as their base-36 digits after the point:
\* 0, 0.5 and 35/36
MathRandoms == {<<>>, <<18>>, <<35>>}

\* what the user leaves in the seed input: nothing, or "a"
Inputs == {<<>>, <<97>>}

\* the seed parameters a page is opened with: none (or an empty one), or "b"
UrlSeeds == {<<>>, <<98>>}

\* Number.prototype.toString(36) of a Math.random() value
toString36(r) ==
  IF r = <<>> THEN <<48>>
  ELSE <<48, 46>> \o [i \in 1 .. Len(r) |-> IF r[i] < 10 THEN 48 + r[i] ELSE 87 + r[i]]

\* String.prototype.slice(start, end) for 0 <= start <= end
slice(str, start, end) == SubSeq(str, start + 1, Min(end, Len(str)))

\* getInitialSeed with Math.random() returning r
getInitialSeed(url, r) ==
  IF url # <<>> /\ Len(url) > 0 THEN url ELSE slice(toString36(r), 2, 10)

\* chars.charAt(Math.floor(Math.random() * chars.length))
charAt(r) ==
  LET k == IF r = <<>> THEN 0 ELSE r[1]
  IN IF k < 26 THEN 97 + k ELSE 48 + (k - 26)

\* randomSeed with its six Math.random() values rs: 'spaceship-' and six chars
randomSeed(rs) ==
  <<115, 112, 97, 99, 101, 115, 104, 105, 112, 45>> \o [i \in 1 .. 6 |-> charAt(rs[i])]

\* seedInput.value || 'default'
OrDefault(value) ==
  IF value = <<>> THEN <<100, 101, 102, 97, 117, 108, 116>> ELSE value

\* updateNavButtons
updateNavButtons(u) ==
  [u EXCEPT !.prevDisabled = (u.seedIndex <= 0),
            !.nextDisabled = (u.seedIndex >= Len(u.seedHistory) - 1)]

\* a call that appends the seed to the whole history
setSeedAndAppend(event, s, addToHistory, index, threw) ==
  /\ seed' = s
  /\ urlSeed' = replaceState(urlSeed, s)
  /\ gens' = gens + 1
  /\ ui' = IF threw
           THEN [ui EXCEPT !.seedInput = s, !.seedIndex = index, !.event = event,
                           !.threw = TRUE, !.dropped = 0]
           ELSE IF ~addToHistory
           THEN updateNavButtons([ui EXCEPT !.seedInput = s, !.seedIndex = index,
                                            !.event = event, !.threw = FALSE,
                                            !.dropped = 0])
           ELSE updateNavButtons([ui EXCEPT !.seedInput = s,
                                            !.seedHistory = Append(ui.seedHistory, s),
                                            !.seedIndex = Len(ui.seedHistory),
                                            !.event = event, !.threw = FALSE,
                                            !.dropped = 0])
  /\ pc' = IF threw /\ event = "load" THEN "dead" ELSE "ui"
  /\ UNCHANGED <<call, factory, rngSeed, draws, sinTable, scene, currentShipRef,
                 disposed, roots, debugForceShape, gen, cleanStart, cleanRuns>>

\* setSeedAndGenerate: the input and the URL take the seed, generateShip is
\* called with it and, unless that call threw, the history and the navigation
\* buttons are updated.  A throw during the initialization ends the script
\* before its listeners are registered.
setSeedAndGenerate(event, s, addToHistory, index, threw) ==
  /\ seed' = s
  /\ urlSeed' = replaceState(urlSeed, s)
  /\ gens' = gens + 1
  /\ ui' = IF threw
           THEN [ui EXCEPT !.seedInput = s, !.seedIndex = index, !.event = event,
                           !.threw = TRUE, !.dropped = 0]
           ELSE IF ~addToHistory
           THEN updateNavButtons([ui EXCEPT !.seedInput = s, !.seedIndex = index,
                                            !.event = event, !.threw = FALSE,
                                            !.dropped = 0])
           ELSE LET kept == IF index < Len(ui.seedHistory) - 1
                            THEN SubSeq(ui.seedHistory, 1, index + 1)
                            ELSE ui.seedHistory
                IN updateNavButtons([ui EXCEPT !.seedInput = s,
                                               !.seedHistory = Append(kept, s),
                                               !.seedIndex = Len(kept),
                                               !.event = event, !.threw = FALSE,
                                               !.dropped = Len(ui.seedHistory) - Len(kept)])
  /\ pc' = IF threw /\ event = "load" THEN "dead" ELSE "ui"
  /\ UNCHANGED <<call, factory, rngSeed, draws, sinTable, scene, currentShipRef,
                 disposed, roots, debugForceShape, gen, cleanStart, cleanRuns>>

\* the page is opened with or without a seed parameter
InitUI ==
  /\ pc = "load"
  /\ seed = <<>>
  /\ rngSeed = 0
  /\ draws = <<>>
  /\ sinTable = <<>>
  /\ gens = 0
  /\ scene = {}
  /\ currentShipRef = 0
  /\ disposed = <<>>
  /\ roots = <<>>
  /\ urlSeed \in UrlSeeds
  /\ debugForceShape = "cylinder"
  /\ factory = FALSE
  /\ ui = NoUi
  /\ gen = NoGen
  /\ cleanStart = FALSE
  /\ cleanRuns = {}
  /\ call = NoCall

\* main.ts, lines 235-236: the initial seed and the first generation
Load ==
  /\ pc = "load"
  /\ \E r \in MathRandoms, threw \in BOOLEAN :
       setSeedAndGenerate("load", getInitialSeed(urlSeed, r), TRUE, ui.seedIndex, threw)

\* the 'input' listener of the seed field, lines 243-245
SeedInput ==
  /\ pc = "ui"
  /\ gens < MaxEvents
  /\ \E value \in Inputs, threw \in BOOLEAN :
       setSeedAndGenerate("input", OrDefault(value), TRUE, ui.seedIndex, threw)

\* the 'click' listener of the generate button, lines 248-251
GenerateClick ==
  /\ pc = "ui"
  /\ gens < MaxEvents
  /\ \E r \in MathRandoms, threw \in BOOLEAN :
       setSeedAndGenerate("generate", randomSeed([i \in 1 .. 6 |-> r]), TRUE, ui.seedIndex, threw)

\* the 'click' listener of the previous button, lines 254-259; a disabled
\* button dispatches no click
PrevClick ==
  /\ pc = "ui"
  /\ gens < MaxEvents
  /\ ~ui.prevDisabled
  /\ ui.seedIndex > 0
  /\ \E threw \in BOOLEAN :
       setSeedAndGenerate("prev", ui.seedHistory[ui.seedIndex], FALSE, ui.seedIndex - 1, threw)

\* the 'click' listener of the next button, lines 262-267; a disabled button
\* dispatches no click
NextClick ==
  /\ pc = "ui"
  /\ gens < MaxEvents
  /\ ~ui.nextDisabled
  /\ ui.seedIndex < Len(ui.seedHistory) - 1
  /\ \E threw \in BOOLEAN :
       setSeedAndGenerate("next", ui.seedHistory[ui.seedIndex + 2], FALSE, ui.seedIndex + 1, threw)

NextUI == Load \/ SeedInput \/ GenerateClick \/ PrevClick \/ NextClick

SpecUI == InitUI /\ [][NextUI]_vars

\* ------------------------------------------------ SeededRandom on its own
\* the longest seed string, and the most method calls made on one generator
MaxLen == 6
MaxDraws == 2

\* the char codes of the seed strings: 'a' and U+FFFF
Chars == {97, 65535}

\* the strings over Chars of at most n characters
RECURSIVE Strings(_)
Strings(n) ==
  IF n = 0 THEN {<<>>}
  ELSE Strings(n - 1) \cup {Append(str, c) : str \in Strings(n - 1), c \in Chars}

\* a generator is constructed from a string
InitRandom ==
  /\ pc = "rng"
  /\ seed \in Strings(MaxLen)
  /\ rngSeed = SeededRandom(seed)
  /\ draws = <<>>
  /\ sinTable = <<>>
  /\ gens = 0
  /\ scene = {}
  /\ currentShipRef = 0
  /\ disposed = <<>>
  /\ roots = <<>>
  /\ urlSeed = <<>>
  /\ debugForceShape = "cylinder"
  /\ factory = FALSE
  /\ ui = NoUi
  /\ gen = NoGen
  /\ cleanStart = FALSE
  /\ cleanRuns = {}
  /\ call = NoCall

\* a method of the generator returned r
Returns(fn, r) ==
  /\ gens' = gens + 1
  /\ rngSeed' = r.seed
  /\ draws' = draws \o r.d
  /\ call' = [fn |-> fn, thrusterCount |-> 0, thrusterSize |-> 0,
              result |-> [null |-> FALSE, positions |-> <<>>, value |-> r.value, d |-> r.d]]
  /\ UNCHANGED <<pc, seed, sinTable, scene, currentShipRef, disposed, roots, urlSeed,
                 debugForceShape, factory, ui, gen, cleanStart, cleanRuns>>

CallRandom ==
  /\ pc = "rng"
  /\ gens < MaxDraws
  /\ \E q \in Ends : Returns("random", randomCall(rngSeed, q))

CallRange ==
  /\ pc = "rng"
  /\ gens < MaxDraws
  /\ \E q \in Ends : Returns("range", rangeCall(rngSeed, q, 5000, 250000))

CallInt ==
  /\ pc = "rng"
  /\ gens < MaxDraws
  /\ \E q \in Ends : Returns("int", intCall(rngSeed, q, 0, 3000))

CallWeightedRandom ==
  /\ pc = "rng"
  /\ gens < MaxDraws
  /\ \E q1, q2 \in Mid3 :
       Returns("weightedRandom", weightedRandomCall(rngSeed, q1, q2, 500, 100))

NextRandom == CallRandom \/ CallRange \/ CallInt \/ CallWeightedRandom

SpecRandom == InitRandom /\ [][NextRandom]_vars

\* ----------------------------------------------------------------- claims
\* generateShip has returned and its ship is the current one
Returned == pc = "idle" /\ currentShipRef # 0
\* the current root's only child: the ship group
ShipOf == roots[currentShipRef].children[1]
SectionKinds == <<"thrusters", "engineBlock", "cargo", "commandDeck">>

\* C1: two calls of generateShip with the same seed, each begun with an empty
\* scene, a null ship slot and the command-deck factory untouched, make the
\* same sequence of draws and the same masses, thrusters, layout, pods,
\* segments, lengths and attachment points (or throw at the same draw)
C1_Determinism ==
  \A a, b \in cleanRuns :
    a.seed = b.seed => [a EXCEPT !.run = 0] = [b EXCEPT !.run = 0]

C1_TwoCleanRuns ==
  \E a, b \in cleanRuns :
    a.run # b.run /\ a.seed = b.seed /\ a.root # NoRoot /\ Len(a.draws) > 8

\* C2: the total mass handed to makeThrusters is the command deck mass plus the
\* engine block mass plus the mass makeCargoSection reported
C2_MassConservation ==
  "thrusterSection" \in DOMAIN gen =>
    gen.thrusterSection.totalShipMass
      = gen.commandDeckMass + gen.engineBlockMass + gen.cargoSection.mass

C2_RealizedNotTarget ==
  /\ "thrusterSection" \in DOMAIN gen
  /\ gen.cargoSection.mass # gen.targetCargoMass

\* C3: the thrusters sit at z = 0, each later section at the sum of the
\* lengths of the sections behind it, and the final attachment point is the
\* sum of the four lengths, the cargo length being longer than its segments
\* by its gaps
C3_SectionChain ==
  Returned =>
    LET ch == ShipOf.children
        t == gen.thrusterSection.length
        e == gen.engineBlockSection.length
        c == gen.cargoSection.length
        k == gen.commandDeckSection.length
    IN /\ ch[1].z = 0
       /\ ch[2].z = t
       /\ ch[3].z = t + e
       /\ ch[4].z = t + e + c
       /\ gen.endAttachmentPoint = t + e + c + k
       /\ c > gen.cargoSection.segmentCount * gen.cargoSection.segmentLength

C3_SeveralSegments ==
  /\ Returned
  /\ gen.cargoSection.segmentCount >= 2
  /\ gen.thrusterSection.length > 0
  /\ gen.engineBlockSection.length > 0

\* C4: the ship group has twelve children: the thruster, engine block, cargo
\* and command deck sections in that order, then the eight debug lines
C4_SectionsThenDebugLines ==
  Returned =>
    /\ Len(ShipOf.children) = 12
    /\ \A i \in 1 .. 4 : ShipOf.children[i].kind = SectionKinds[i]
    /\ \A i \in 5 .. 12 : ShipOf.children[i].kind = "debugLine"

C4_ShipBuilt == Returned /\ Len(ShipOf.children) > 4

\* C4 as stated: the ship group has exactly four children, the sections in order
C4_ExactlyFourChildren ==
  Returned =>
    /\ Len(ShipOf.children) = 4
    /\ \A i \in 1 .. 4 : ShipOf.children[i].kind = SectionKinds[i]

\* C5: the root group stored in currentShipRef and added to the scene stays at
\* z = 0; its only child, the ship group, is at minus half the total length
C5_ShipGroupCentred ==
  Returned =>
    /\ currentShipRef \in scene
    /\ roots[currentShipRef].z = 0
    /\ Len(roots[currentShipRef].children) = 1
    /\ ShipOf.z = -Half(gen.endAttachmentPoint)

C5_RootNotMoved ==
  /\ Returned
  /\ gen.endAttachmentPoint > 1
  /\ roots[currentShipRef].z # ShipOf.z

\* C5 as stated: the root group is at minus half the total length
C5_RootCentred ==
  Returned => roots[currentShipRef].z = -Half(gen.endAttachmentPoint)

\* the least z of section i's geometry in the section's own space
SectionMinZ(i) == MinZ(ShipOf.children[i].parts)

\* C6: the engine block's and the command deck's geometry and the thruster
\* nozzles start at local z = 0; the thruster glow cones reach back to -1.25
\* nozzle diameters, and the cargo section's first segment starts one segment
\* gap (at least 0.01) above 0
C6_RearFaces ==
  Returned =>
    /\ SectionMinZ(2) = 0
    /\ SectionMinZ(4) = 0
    /\ MinZ({p \in ShipOf.children[1].parts : p.part = "nozzle"}) = 0
    /\ Abs(4 * SectionMinZ(1) + 5 * gen.thrusterSize) <= 8
    /\ SectionMinZ(1) < 0
    /\ SectionMinZ(3) = gen.cargoSection.segmentGap
    /\ gen.cargoSection.segmentGap >= 10

C6_GlowAndGap == Returned /\ SectionMinZ(1) < 0 /\ SectionMinZ(3) > 0

\* C6 as stated: each section's geometry starts at local z = 0
C6_AllRearFacesAtZero == Returned => \A i \in 1 .. 4 : SectionMinZ(i) = 0

\* C7: the total ship mass after the cargo section reported its mass lies
\* between SHIP_MIN_MASS and SHIP_MAX_MASS
C7_MassInRange ==
  "totalShipMass" \in DOMAIN gen =>
    /\ gen.totalShipMass >= SHIP_MIN_MASS * 1000
    /\ gen.totalShipMass <= SHIP_MAX_MASS * 1000

\* C8: the thruster count round(mass / power) lies between MIN_THRUSTER_COUNT
\* and MAX_THRUSTER_COUNT for every mass generateShip hands to makeThrusters
C8_ThrusterCount ==
  "thrusterSection" \in DOMAIN gen =>
    /\ gen.thrusterSection.thrusterCount >= MIN_THRUSTER_COUNT
    /\ gen.thrusterSection.thrusterCount <= MAX_THRUSTER_COUNT

C8_MostThrusters ==
  /\ "thrusterSection" \in DOMAIN gen
  /\ gen.thrusterSection.thrusterCount = MAX_THRUSTER_COUNT

\* two positions at least r apart
Apart(p, q, r) ==
  \/ Abs(p.x - q.x) >= r
  \/ Abs(p.y - q.y) >= r
  \/ (p.x - q.x) * (p.x - q.x) + (p.y - q.y) * (p.y - q.y) >= r * r

\* C9: whichever layout function is called with a count of at least 2, any two
\* of the positions it returns are at least the unit size apart
C9_NonOverlap ==
  (call.fn # "none" /\ ~call.result.null /\ call.thrusterCount >= 2) =>
    \A i, j \in DOMAIN call.result.positions :
      i < j => Apart(call.result.positions[i], call.result.positions[j],
                     call.thrusterSize)

C9_CloseRing ==
  /\ call.fn = "radial"
  /\ call.thrusterCount >= 7
  /\ \E i, j \in DOMAIN call.result.positions :
       i < j /\ ~Apart(call.result.positions[i], call.result.positions[j],
                       MulF(call.thrusterSize, 1100))

\* C10: gridThrusterLayout returns positions exactly when the count is
\* rows * cols for some rows >= 2 and cols >= 2, and null otherwise
C10_GridApplicability ==
  call.fn = "grid" =>
    (~call.result.null <=>
       \E rows, cols \in 2 .. call.thrusterCount : rows * cols = call.thrusterCount)

C10_GridOfTwelve ==
  /\ call.fn = "grid"
  /\ call.thrusterCount = 12
  /\ ~call.result.null
  /\ Len(call.result.positions) = 12

\* whether the offset grid layout, or the grid layout, is infeasible for n
OffsetInfeasible(n) == \A r \in offsetGridThrusterLayout(n, 1000, 0) : r.null
GridInfeasible(n) == \A r \in gridThrusterLayout(n, 1000, 0) : r.null
\* the layout a selection call tried first, from the count and its draws
FirstTried ==
  IF call.thrusterCount >= 7 /\ random(call.result.d[1]) < 500 THEN "offset"
  ELSE IF call.thrusterCount >= 7 /\ random(call.result.d[2]) < 500 THEN "grid"
  ELSE IF call.thrusterCount \in 4 .. 6 /\ random(call.result.d[1]) < 500 THEN "grid"
  ELSE "radial"

\* C11: layout selection ends with a position list for every count >= 1: the
\* offset grid is used when tried and feasible, else the grid, else the radial
\* layout; a tried grid is used when feasible, else the radial layout; and the
\* radial layout never returns null
C11_LayoutFallthrough ==
  /\ call.fn = "radial" => ~call.result.null
  /\ call.fn = "select" =>
       /\ ~call.result.null
       /\ call.result.layout =
            IF FirstTried = "offset" /\ ~OffsetInfeasible(call.thrusterCount)
            THEN "offset"
            ELSE IF FirstTried \in {"offset", "grid"}
                    /\ ~GridInfeasible(call.thrusterCount)
            THEN "grid"
            ELSE "radial"
       /\ call.result.isRadial = (call.result.layout = "radial")

C11_FellThroughTwice ==
  /\ call.fn = "select"
  /\ FirstTried = "offset"
  /\ call.result.layout = "radial"
  /\ Len(call.result.positions) = call.thrusterCount

\* C12: generateShip returns normally for every seed: no section generator
\* lets an exception escape to the caller
C12_ReturnsNormally == pc # "threw"

\* the stages of generateShip between the cleanup and the scene.add
Building == pc \in {"budget", "cargo", "thrusters", "engine", "placeCargo",
                    "commandDeck", "finish"}

\* a call of generateShip while a ship is displayed removes it and disposes it
CleanupStep ==
  (pc \in {"idle", "threw"} /\ pc' = "budget" /\ currentShipRef \in scene) =>
    (/\ scene' = scene \ {currentShipRef}
     /\ disposed'[currentShipRef] = disposed[currentShipRef] + 1)

\* C13: when generateShip is called while a ship is displayed, that ship is
\* detached from the scene and its subtree disposed before the new ship is
\* built: while a ship is being built the previous ship is out of the scene
\* and has been disposed, and the call itself does both
C13_DisposeBeforeBuild ==
  /\ [](Building /\ currentShipRef # 0 =>
         currentShipRef \notin scene /\ disposed[currentShipRef] >= 1)
  /\ [][CleanupStep]_vars

C13_PreviousShipReleased ==
  /\ pc = "budget"
  /\ currentShipRef # 0
  /\ scene = {}
  /\ disposed[currentShipRef] = 1
  /\ Len(roots[currentShipRef].children[1].children) = 12

\* C14: every ship root in the scene is the current, finished ship: its group
\* holds the four sections in order, each at its attachment Z, and has been
\* centred; no root is in the scene while a ship is being assembled
C14_AtomicVisibility ==
  \A r \in scene :
    /\ pc = "idle"
    /\ r = currentShipRef
    /\ Len(roots[r].children) = 1
    /\ LET ship == roots[r].children[1]
       IN /\ Len(ship.children) >= 4
          /\ \A i \in 1 .. 4 : ship.children[i].kind = SectionKinds[i]
          /\ ship.children[1].z = 0
          /\ ship.children[2].z = gen.thrusterAttachmentPoint
          /\ ship.children[3].z = gen.cargoAttachmentPoint
          /\ ship.children[4].z = gen.commandDeckAttachmentPoint
          /\ ship.z = -Half(gen.endAttachmentPoint)

C14_SecondShipVisible ==
  /\ scene = {2}
  /\ gens = 2
  /\ roots[2].children[1].children[4].z > roots[2].children[1].children[3].z
  /\ roots[2].children[1].z < 0

\* a step of generateShip: its first statements, or one of its later stages
GenerateStep == pc' # pc /\ (pc' = "budget" \/ Building)

\* what a step of generateShip leaves alone: the forced deck shape is not
\* written, the scene gains no object but the new current ship, and the URL
\* changes only to carry the call's seed
FrameStep ==
  GenerateStep =>
    (/\ debugForceShape' = debugForceShape
     /\ scene' \subseteq (scene \ {currentShipRef}) \cup {currentShipRef'}
     /\ urlSeed' \in {urlSeed, seed'}
     /\ factory' \in {factory, TRUE})

\* C15: besides the current-ship slot a call of generateShip writes the URL's
\* seed parameter and creates the command deck factory singleton; it adds
\* nothing to the scene but its ship, and the ship, the draws and the masses
\* it makes for a seed are those of a call begun clean with that seed,
\* whatever calls came before
C15_FrameAndIndependence ==
  /\ [][FrameStep]_vars
  /\ [](Returned =>
         \A c \in cleanRuns :
           c.seed = seed =>
             c.root = roots[currentShipRef] /\ c.draws = draws /\ c.gen = gen)

C15_SameShipAfterEarlierCall ==
  /\ Returned
  /\ ~cleanStart
  /\ urlSeed = seed
  /\ factory
  /\ \E c \in cleanRuns : c.seed = seed /\ c.run # gens /\ c.root = roots[currentShipRef]

\* a step of generateShip that writes only the current-ship slot
OnlyShipSlotStep ==
  GenerateStep =>
    (/\ UNCHANGED <<urlSeed, debugForceShape, factory>>
     /\ scene' \subseteq (scene \ {currentShipRef}) \cup {currentShipRef'})

\* C15 as stated: a call reads and writes no state that outlives it other
\* than the current-ship slot
C15_OnlyShipSlot == [][OnlyShipSlotStep]_vars

\* C16: every seed the page passes to generateShip (on load, from the seed
\* input, the generate button and the previous and next buttons) is a
\* non-empty string
C16_SeedNonEmpty == (pc = "ui" /\ gens > 0) => seed # <<>>

\* C17: for every positive totalShipMass makeThrusters returns at least one
\* thruster position
C17_AtLeastOneThruster ==
  call.fn = "makeThrusters" =>
    call.thrusterCount >= 1 /\ Len(call.result.positions) >= 1

\* C18: a command deck gets a row of windows only if the chosen number of
\* windows with their frame spacing fits in the available face width and each
\* window has a positive width; otherwise it gets no windows
C18_WindowsFit ==
  (call.fn = "boxDeck" /\ call.result.windows.windowCount > 0) =>
    LET w == call.result.windows
    IN /\ w.windowWidth > 0
       /\ (w.windowCount - 1) * w.windowSpacingX + w.windowWidth <= w.availableWidth

\* the number of random() draws a method of SeededRandom is said to make
DrawsOf(fn) == IF fn = "weightedRandom" THEN 2 ELSE 1

\* a method call moves the seed by its number of draws and nothing else
DrawStep ==
  gens' = gens + 1 =>
    /\ rngSeed' = rngSeed + DrawsOf(call'.fn)
    /\ Len(draws') = Len(draws) + DrawsOf(call'.fn)
    /\ UNCHANGED <<pc, seed, sinTable, scene, currentShipRef, disposed, roots, urlSeed,
                   debugForceShape, factory, ui, gen, cleanStart, cleanRuns>>

\* C19: random(), range() and int() advance the seed by exactly 1,
\* weightedRandom() by exactly 2, and change nothing else, so the seed after k
\* draws is the hash of the seed string plus k
C19_SeedAdvance ==
  /\ [](rngSeed = hashCode(seed) + Len(draws))
  /\ [][DrawStep]_vars

C19_ThreeDraws ==
  /\ call.fn = "weightedRandom"
  /\ Len(draws) = 3
  /\ rngSeed = hashCode(seed) + 3
  /\ call.result.value \in 1 .. 999

\* 31 * h + charCode wrapped to a signed 32-bit integer: the product is taken
\* on the two 16-bit halves of h, the carry of the low half going to the high
Times31Plus(h, charCode) ==
  LET lo == h % 65536
      hi == h \div 65536
      t == 31 * lo + charCode
      h2 == 31 * hi + (t \div 65536)
  IN (((h2 + 32768) % 65536) - 32768) * 65536 + (t % 65536)

\* h folded over the characters of str from the i-th on
RECURSIVE Fold31(_, _, _)
Fold31(str, i, h) ==
  IF i > Len(str) THEN h ELSE Fold31(str, i + 1, Times31Plus(h, str[i]))

\* C20: the initial seed made from a string is |h| for h folded from 0 by
\* h <- 31 * h + charCode wrapped to signed 32 bits; it is not negative, and
\* the empty string gives 0
C20_HashCode ==
  LET initial == rngSeed - Len(draws)
  IN /\ initial = Abs(Fold31(seed, 1, 0))
     /\ initial >= 0
     /\ initial - 1 <= 2147483647
     /\ seed = <<>> => initial = 0

C20_WrappedNegative ==
  /\ call.fn = "random"
  /\ Len(seed) >= 4
  /\ Fold31(seed, 1, 0) < 0
  /\ rngSeed = 1 - Fold31(seed, 1, 0)

\* the order of generateShip's stages: a stage is entered from the one before
\* it, a throw leaves the cargo stage, a reload follows a throw
LinearOrder ==
  {<<"idle", "budget">>, <<"threw", "budget">>, <<"budget", "cargo">>,
   <<"cargo", "thrusters">>, <<"cargo", "threw">>, <<"thrusters", "engine">>,
   <<"engine", "placeCargo">>, <<"placeCargo", "commandDeck">>,
   <<"commandDeck", "finish">>, <<"finish", "idle">>, <<"threw", "idle">>}

\* the generator whose result is stored under a name of gen, and the stage
\* that calls it
GeneratorStage ==
  [cargoSection |-> "cargo", thrusterSection |-> "thrusters",
   engineBlockSection |-> "engine", commandDeckSection |-> "commandDeck"]

\* the kinds of the children of the ship group under construction
KindsOf(g) == [i \in 1 .. Len(g.ship.children) |-> g.ship.children[i].kind]

LinearStep ==
  pc' # pc =>
    /\ <<pc, pc'>> \in LinearOrder
    /\ \A name \in DOMAIN GeneratorStage :
         /\ (name \in DOMAIN gen' /\ name \notin DOMAIN gen) => pc = GeneratorStage[name]
         /\ (pc = GeneratorStage[name] /\ pc' # "threw") =>
              (name \in DOMAIN gen' /\ name \notin DOMAIN gen)
         /\ (name \in DOMAIN gen /\ pc' # "budget") =>
              (name \in DOMAIN gen' /\ gen'[name] = gen[name])
    /\ pc' # "budget" =>
         /\ Len(draws') >= Len(draws)
         /\ SubSeq(draws', 1, Len(draws)) = draws
         /\ rngSeed' = rngSeed + (Len(draws') - Len(draws))
    /\ pc' = "cargo" => Len(draws') = 3
    /\ pc \in {"placeCargo", "finish"} => draws' = draws
    /\ (pc' \notin {"budget", "threw"} /\ pc # "threw") =>
         /\ ("cargo" \in {KindsOf(gen')[i] : i \in DOMAIN KindsOf(gen')}
               /\ "cargo" \notin {KindsOf(gen)[i] : i \in DOMAIN KindsOf(gen)})
              <=> pc = "placeCargo"
         /\ pc = "placeCargo" =>
              /\ KindsOf(gen) = <<"thrusters", "engineBlock">>
              /\ gen'.ship.children[3].parts = gen.cargoSection.parts
              /\ gen'.ship.children[3].z = gen.cargoAttachmentPoint
         /\ gen'.ship.z # gen.ship.z => pc = "finish"
         /\ pc = "finish" =>
              /\ gen'.ship.z = -Half(gen.endAttachmentPoint)
              /\ roots'[currentShipRef'].children = <<gen'.ship>>

\* C21: generateShip is one linear pass: the three budget draws, then
\* makeCargoSection, makeThrusters, makeEngineBlock and makeCommandDeck called
\* once each in that order on the one rng of the call; the cargo mesh made
\* first is placed only once the thrusters and the engine block are in the
\* ship group, and the ship group is moved only by the centring that ends the
\* pass, the centred group being the one published
C21_LinearPass == [][LinearStep]_vars

C21_PassCompleted ==
  /\ Returned
  /\ DOMAIN GeneratorStage \subseteq DOMAIN gen
  /\ Len(draws) > 8
  /\ ShipOf.z < 0

\* C22: the new ship is built completely before the previous one is detached
\* and disposed: while a ship is being built, and after a call failed in
\* building, the previous ship is still in the scene, undisposed and the one
\* currentShipRef.current names
C22_BuildBeforeRelease ==
  ((Building \/ pc = "threw") /\ currentShipRef # 0) =>
    (currentShipRef \in scene /\ disposed[currentShipRef] = 0)

\* the extent of the thruster positions p along x and along y
SpreadX(p) == SetMax({p[i].x : i \in DOMAIN p}) - SetMin({p[i].x : i \in DOMAIN p})
SpreadY(p) == SetMax({p[i].y : i \in DOMAIN p}) - SetMin({p[i].y : i \in DOMAIN p})

MaxThisRing(baseRadius, thrusterSize) ==
  MulF(2 * PI, baseRadius) \div MulF(thrusterSize, 1100)

\* the units the while loop puts on a ring when enginesLeft are left
ThisRingCount(enginesLeft, baseRadius, thrusterSize) ==
  Min(MaxThisRing(baseRadius, thrusterSize), enginesLeft)
    - (IF enginesLeft - MaxThisRing(baseRadius, thrusterSize) = 1 THEN 1 ELSE 0)

\* the passes the while loop makes before enginesLeft is 0, counted up to
\* fuel passes: -1 if a pass places nothing or too much, or if units are
\* left after fuel passes
RECURSIVE RingPasses(_, _, _, _)
RingPasses(enginesLeft, baseRadius, thrusterSize, fuel) ==
  IF enginesLeft = 0 THEN 0
  ELSE IF fuel = 0 THEN -1
  ELSE LET n == ThisRingCount(enginesLeft, baseRadius, thrusterSize)
           rest == IF n < 1 \/ n > enginesLeft THEN -1
                   ELSE RingPasses(enginesLeft - n, baseRadius + MulF(thrusterSize, 1150),
                                   thrusterSize, fuel - 1)
       IN IF rest < 0 THEN -1 ELSE rest + 1

\* the radius of the centre cluster of centerCount units
CenterRadius(centerCount, thrusterSize) ==
  IF centerCount > 1
  THEN DivF(MulF(centerCount * 1000 + 1600, thrusterSize), 2 * PI)
  ELSE 0

\* C24: radialThrusterLayout, called with a count of at least 1 and a unit
\* size above 0, ends after at most count passes of its ring loop, each of
\* which places at least one and at most the remaining units, and returns
\* exactly count positions
C24_RadialTerminates ==
  call.fn = "radial" =>
    LET n == call.thrusterCount
        c == call.result.centerCount
        first == CenterRadius(c, call.thrusterSize) + MulF(call.thrusterSize, 1150)
    IN /\ ~call.result.null
       /\ c \in 0 .. n
       /\ RingPasses(n - c, first, call.thrusterSize, n) \in 0 .. n
       /\ Len(call.result.positions) = n

\* a ring shortened by one unit: seven units around an empty centre, the
\* first ring holding six
C24_ShortenedRing ==
  /\ call.fn = "radial"
  /\ call.thrusterCount = 7
  /\ call.result.centerCount = 0
  /\ MaxThisRing(MulF(call.thrusterSize, 1150), call.thrusterSize) = 6
  /\ ThisRingCount(7, MulF(call.thrusterSize, 1150), call.thrusterSize) = 5
  /\ RingPasses(7, MulF(call.thrusterSize, 1150), call.thrusterSize, 7) = 2
  /\ Len(call.result.positions) = 7

\* the prefabricated pod masses, in thousandths
Prefabs == {prefabCargoPodVolume[i] * 1000 : i \in DOMAIN prefabCargoPodVolume}

\* podMass is what the claim says of the target pod mass: below 200 a
\* prefabricated mass none of which is closer, above 200 the target
ClosestOrExact(targetMass, podMass) ==
  /\ targetMass < 200000 =>
       /\ podMass \in Prefabs
       /\ \A m \in Prefabs : Abs(podMass - targetMass) <= Abs(m - targetMass)
  /\ targetMass > 200000 => podMass = targetMass

\* C25: getClosestPodMass returns, for a target below 200, a prefabricated
\* mass that no other prefabricated mass is closer to the target than, and
\* for a target above 200 the target itself; the mass makeCargoSection
\* reports is that pod mass times the pods per segment times the segments
C25_ClosestPodMass ==
  /\ call.fn = "getClosestPodMass" =>
       ClosestOrExact(call.result.targetMass, call.result.podMass)
  /\ (call.fn = "makeCargoSection" /\ ~call.result.threw) =>
       LET c == call.result
       IN /\ ClosestOrExact((c.targetCargoMass \div c.segmentCount) \div c.podsPerSegment,
                            c.podMass)
          /\ c.mass = c.podMass * c.podsPerSegment * c.segmentCount

\* a target above the threshold, kept as it is
C25_ExactAboveThreshold ==
  /\ call.fn = "makeCargoSection"
  /\ ~call.result.threw
  /\ call.result.podMass = 300000
  /\ call.result.segmentCount = 2
  /\ call.result.mass = 600000

\* C26: makeCargoSection leaves a gap only between consecutive segments: the
\* length it reports is N segment lengths plus N - 1 gaps, and clone i (from
\* 0) starts at i segment lengths and gaps
C26_GapsBetweenSegments ==
  (call.fn = "makeCargoSection" /\ ~call.result.threw) =>
    LET c == call.result
    IN /\ c.length = c.segmentCount * c.segmentLength
                       + (c.segmentCount - 1) * c.segmentGap
       /\ \A i \in 1 .. c.segmentCount :
            c.cloneZ[i] = (i - 1) * (c.segmentLength + c.segmentGap)

\* the shape a draw of value r (in thousandths) selects according to the
\* claim: the first whose cumulative weight exceeds r times the total weight
FirstExceeding(r) ==
  LET total == SumWeights(shapeWeights, 1)
      i == CHOOSE j \in DOMAIN shapeWeights :
             /\ SumWeights(SubSeq(shapeWeights, 1, j), 1) * 1000 > r * total
             /\ \A h \in 1 .. j - 1 :
                  SumWeights(SubSeq(shapeWeights, 1, h), 1) * 1000 <= r * total
  IN shapeWeights[i].shape

\* C27: makeCommandDeck's factory, as constructed, chooses the shape by a
\* weighted draw: it makes one draw, the shape chosen is the first whose
\* cumulative weight exceeds the draw times the total weight, every shape of
\* positive weight is chosen for some draw, and no shape of weight 0 is chosen
C27_WeightedChoice ==
  call.fn = "getRandomGenerator" =>
    /\ Len(call.result.d) = 1
    /\ call.result.shape = FirstExceeding(random(call.result.d[1]))
    /\ \A i \in DOMAIN shapeWeights :
         IF shapeWeights[i].weight > 0
         THEN \E g \in getRandomGenerator(rngSeed) : g.shape = shapeWeights[i].shape
         ELSE call.result.shape # shapeWeights[i].shape

\* a listener ran: setSeedAndGenerate was called once more
ListenerStep == gens' = gens + 1 /\ pc' = "ui"

\* what one call of setSeedAndGenerate does to the history
HistoryStep ==
  ListenerStep =>
    /\ (ui'.event \in {"input", "generate"} /\ ~ui'.threw) =>
         /\ ui'.seedHistory
              = Append(SubSeq(ui.seedHistory, 1, ui.seedIndex + 1), seed')
         /\ ui'.seedIndex = Len(ui'.seedHistory) - 1
    /\ ui'.event \in {"prev", "next"} => ui'.seedHistory = ui.seedHistory
    /\ ui'.seedHistory # ui.seedHistory =>
         ui'.event \in {"load", "input", "generate"}

\* C28: a seed-input or generate event whose ship is generated makes the
\* history the old history up to and including seedIndex followed by the new
\* seed, with seedIndex at the last entry, so forward entries are discarded;
\* the previous and next buttons never change the history
C28_ForwardHistoryDiscarded == [][HistoryStep]_vars

\* a seed was added while an entry lay ahead, and that entry is gone
C28_EntryDiscarded ==
  /\ pc = "ui"
  /\ ui.event \in {"input", "generate"}
  /\ ui.dropped >= 1
  /\ ui.seedIndex = Len(ui.seedHistory) - 1
  /\ ui.seedHistory[Len(ui.seedHistory)] = seed

\* C29: once the page is initialized, after any events the history is not
\* empty, seedIndex names one of its entries, that entry is the seed last
\* passed to generateShip, the previous button is disabled exactly at the
\* first entry and the next button exactly at the last
C29_HistoryInvariant ==
  pc = "ui" =>
    /\ Len(ui.seedHistory) >= 1
    /\ ui.seedIndex \in 0 .. Len(ui.seedHistory) - 1
    /\ seed = ui.seedHistory[ui.seedIndex + 1]
    /\ ui.prevDisabled <=> ui.seedIndex = 0
    /\ ui.nextDisabled <=> ui.seedIndex = Len(ui.seedHistory) - 1

\* the same, whenever the last call of generateShip returned
C29_HistoryInvariantWithoutThrow ==
  (pc = "ui" /\ ~ui.threw) =>
    /\ Len(ui.seedHistory) >= 1
    /\ ui.seedIndex \in 0 .. Len(ui.seedHistory) - 1
    /\ seed = ui.seedHistory[ui.seedIndex + 1]
    /\ ui.prevDisabled <=> ui.seedIndex = 0
    /\ ui.nextDisabled <=> ui.seedIndex = Len(ui.seedHistory) - 1

\* a call of generateShip has ended, by returning or by throwing
AfterCall == Returned \/ pc = "threw"

\* C30: after any calls of generateShip on one scene and one currentShipRef,
\* the scene holds exactly one ship root, the one currentShipRef.current
\* names, and every root made by an earlier call is out of the scene and has
\* been disposed exactly once
C30_OneShipRoot ==
  AfterCall =>
    /\ scene = {currentShipRef}
    /\ currentShipRef \in DOMAIN roots
    /\ disposed[currentShipRef] = 0
    /\ \A r \in DOMAIN roots \ {currentShipRef} :
         r \notin scene /\ disposed[r] = 1

\* the same, after the calls that returned
C30_OneShipRootAfterReturn ==
  Returned =>
    /\ scene = {currentShipRef}
    /\ currentShipRef \in DOMAIN roots
    /\ disposed[currentShipRef] = 0
    /\ \A r \in DOMAIN roots \ {currentShipRef} :
         r \notin scene /\ disposed[r] = 1

====
